---- MODULE Spec2Model ----
(***************************************************************************)
(* Model of the extraction core of hsi-mcp-server:                         *)
(*   scraper_quote.py  (StockQuoteScraper)                                 *)
(*   scraper_index.py  (HSIDataScraper, the variant the tests import)      *)
(*   scraper.py        (HSIDataScraper, the variant main.py imports)       *)
(*   gemini_client.py  (GeminiClient response interpretation)              *)
(*                                                                         *)
(* A text is a sequence of characters; a character is a one-element        *)
(* string.  A parsed float is a record [k, neg, m, e]: k is "none" (the    *)
(* Python None), "fin" (the decimal value (-1)^neg * m * 10^e, m without   *)
(* trailing zeros), "inf" or "nan".                                        *)
(***************************************************************************)
EXTENDS Integers, Sequences, FiniteSets, TLC

VARIABLES
  pc, op, arg, ret,  \* the operation a caller of the core has in progress
  fetchLog,          \* the URLs that operation has requested, in order
  genLog,            \* the calls it has made to the AI models, in order
  gemini_client,     \* HSIServer.gemini_client
  _models,           \* GeminiClient._models: the model types that are cached
  constructions,     \* the outcomes of the GeminiClient() calls, in order
  calls              \* the tool calls of the server, one per request slot

serverVars == <<gemini_client, _models, constructions, calls>>

vars == <<pc, op, arg, ret, fetchLog, genLog, gemini_client, _models,
          constructions, calls>>

-----------------------------------------------------------------------------
(* Characters and text primitives (Python str methods).                    *)

DigitChars == <<"0", "1", "2", "3", "4", "5", "6", "7", "8", "9">>

IsDigit(c) == \E i \in 1..10 : DigitChars[i] = c

DigitVal(c) == (CHOOSE i \in 1..10 : DigitChars[i] = c) - 1

LowerAlpha ==
  <<"a", "b", "c", "d", "e", "f", "g", "h", "i", "j", "k", "l", "m",
    "n", "o", "p", "q", "r", "s", "t", "u", "v", "w", "x", "y", "z">>

UpperAlpha ==
  <<"A", "B", "C", "D", "E", "F", "G", "H", "I", "J", "K", "L", "M",
    "N", "O", "P", "Q", "R", "S", "T", "U", "V", "W", "X", "Y", "Z">>

\* str.upper() on one character
UpperChar(c) ==
  IF \E i \in 1..26 : LowerAlpha[i] = c
  THEN UpperAlpha[CHOOSE i \in 1..26 : LowerAlpha[i] = c]
  ELSE c

\* str.lower() on one character
LowerChar(c) ==
  IF \E i \in 1..26 : UpperAlpha[i] = c
  THEN LowerAlpha[CHOOSE i \in 1..26 : UpperAlpha[i] = c]
  ELSE c

Upper(s) == [i \in 1..Len(s) |-> UpperChar(s[i])]

Lower(s) == [i \in 1..Len(s) |-> LowerChar(s[i])]

\* the regex class \s
IsSpace(c) == c \in {" ", "\t", "\n", "\r"}

\* s[i:] with i counted from 1
Drop(s, i) == SubSeq(s, i, Len(s))

StartsWith(s, p) == Len(p) <= Len(s) /\ SubSeq(s, 1, Len(p)) = p

EndsWith(s, p) ==
  Len(p) <= Len(s) /\ SubSeq(s, Len(s) - Len(p) + 1, Len(s)) = p

\* p occurs in s at position i
MatchAt(s, p, i) ==
  i + Len(p) - 1 <= Len(s) /\ SubSeq(s, i, i + Len(p) - 1) = p

\* the Python test  p in s
Contains(s, p) == \E i \in 1..(Len(s) + 1) : MatchAt(s, p, i)

RECURSIVE LStrip(_)
LStrip(s) ==
  IF s # <<>> /\ IsSpace(Head(s)) THEN LStrip(Tail(s)) ELSE s

RECURSIVE RStrip(_)
RStrip(s) ==
  IF s # <<>> /\ IsSpace(s[Len(s)])
  THEN RStrip(SubSeq(s, 1, Len(s) - 1))
  ELSE s

\* str.strip()
Strip(s) == RStrip(LStrip(s))

\* the positions of s that begin a run of whitespace or hold another
\* character
RunHeads(s) ==
  SelectSeq([i \in 1..Len(s) |-> i],
            LAMBDA i : ~IsSpace(s[i]) \/ i = 1 \/ ~IsSpace(s[i - 1]))

\* the characters at the positions ps, a whitespace replaced by a space
SpacedAt(s, ps) ==
  [k \in 1..Len(ps) |-> IF IsSpace(s[ps[k]]) THEN " " ELSE s[ps[k]]]

\* re.sub(r"\s+", " ", s)
CollapseSpaces(s) == SpacedAt(s, RunHeads(s))

\* re.sub(r"[,\s]", "", s)
RECURSIVE RemoveCommasSpaces(_)
RemoveCommasSpaces(s) ==
  IF s = <<>> THEN <<>>
  ELSE IF Head(s) = "," \/ IsSpace(Head(s))
       THEN RemoveCommasSpaces(Tail(s))
       ELSE <<Head(s)>> \o RemoveCommasSpaces(Tail(s))

\* the longest prefix of s whose characters all satisfy the class Cls
RECURSIVE RunLen(_, _)
RunLen(s, Cls) ==
  IF s # <<>> /\ Head(s) \in Cls THEN 1 + RunLen(Tail(s), Cls) ELSE 0

DigitSet == {DigitChars[i] : i \in 1..10}

\* str.zfill(w) of a digit string
RECURSIVE ZFill(_, _)
ZFill(s, w) == IF Len(s) >= w THEN s ELSE ZFill(<<"0">> \o s, w)

\* the concatenation of a sequence of texts
RECURSIVE Concat(_)
Concat(ss) == IF ss = <<>> THEN <<>> ELSE Head(ss) \o Concat(Tail(ss))

\* all texts made of at most n tokens of T
TokenTexts(T, n) == {Concat(ts) : ts \in UNION {[1..k -> T] : k \in 0..n}}

-----------------------------------------------------------------------------
(* _clean_text: scraper_quote.py 75-83, scraper_index.py 90-104.           *)

_clean_text(text) ==
  IF text = <<>> THEN <<>>
  ELSE Strip(CollapseSpaces(Strip(text)))


-----------------------------------------------------------------------------
(* Python floats.  0.0 and -0.0 compare equal in Python and are one value  *)
(* here.  A mantissa keeps its first MantissaDigits significant digits.    *)

FNone == [k |-> "none", neg |-> FALSE, m |-> 0, e |-> 0]

FNan == [k |-> "nan", neg |-> FALSE, m |-> 0, e |-> 0]

FInf(neg) == [k |-> "inf", neg |-> neg, m |-> 0, e |-> 0]

FZero == [k |-> "fin", neg |-> FALSE, m |-> 0, e |-> 0]

RECURSIVE NumDigits(_)
NumDigits(n) == IF n < 10 THEN 1 ELSE 1 + NumDigits(n \div 10)

RECURSIVE Pow10(_)
Pow10(n) == IF n = 0 THEN 1 ELSE 10 * Pow10(n - 1)

\* the 7 leading decimal digits of m, as a number
Lead7(m) ==
  LET nd == NumDigits(m)
  IN IF nd <= 7 THEN m * Pow10(7 - nd) ELSE m \div Pow10(nd - 7)

\* largest double is 1.7976931348623157e308; larger decimals round to inf
Overflows(m, e) ==
  /\ m # 0
  /\ \/ NumDigits(m) + e > 309
     \/ NumDigits(m) + e = 309 /\ Lead7(m) > 1797693

\* decimals at or below 2.4703282292062327e-324 round to 0.0
Underflows(m, e) ==
  /\ m # 0
  /\ \/ NumDigits(m) + e < -323
     \/ NumDigits(m) + e = -323 /\ Lead7(m) <= 2470328

RECURSIVE StripZeros(_, _)
StripZeros(m, e) ==
  IF m # 0 /\ m % 10 = 0 THEN StripZeros(m \div 10, e + 1) ELSE <<m, e>>

\* the double nearest to (-1)^neg * m * 10^e
MkFloat(neg, m, e) ==
  IF m = 0 \/ Underflows(m, e) THEN FZero
  ELSE IF Overflows(m, e) THEN FInf(neg)
  ELSE LET n == StripZeros(m, e)
       IN [k |-> "fin", neg |-> neg, m |-> n[1], e |-> n[2]]

\* unary minus
FNeg(v) ==
  IF v.k = "fin" /\ v.m = 0 THEN v
  ELSE IF v.k \in {"fin", "inf"} THEN [v EXCEPT !.neg = ~v.neg]
  ELSE v

\* abs()
FAbs(v) == IF v.k \in {"fin", "inf"} THEN [v EXCEPT !.neg = FALSE] ELSE v

\* v * 10^p for a float v
FScale(v, p) == IF v.k = "fin" THEN MkFloat(v.neg, v.m, v.e + p) ELSE v

\* v <= 0 and v >= 0 (both false of nan)
FLeZero(v) ==
  \/ v.k = "fin" /\ (v.neg \/ v.m = 0)
  \/ v.k = "inf" /\ v.neg

FGeZero(v) ==
  \/ v.k = "fin" /\ ~v.neg
  \/ v.k = "inf" /\ ~v.neg

\* math.isfinite
FIsFinite(v) == v.k = "fin"

\* truth value of an Optional[float]
FTruthy(v) == v.k \in {"inf", "nan"} \/ (v.k = "fin" /\ v.m # 0)

\* the decimal literal  int.frac  with frac given as digits, e.g. Dec(52,75,2)
Dec(i, f, fd) == MkFloat(FALSE, i * Pow10(fd) + f, -fd)

-----------------------------------------------------------------------------
(* float(str): the CPython grammar                                         *)
(*   [sign] ("inf" | "infinity" | "nan")                                   *)
(*   [sign] (digitpart ["." [digitpart]] | "." digitpart) [e [sign] digitpart] *)
(* with digitpart = digit (["_"] digit)*.                                  *)

ValidDigitPart(s) ==
  /\ s # <<>>
  /\ IsDigit(s[1])
  /\ IsDigit(s[Len(s)])
  /\ \A i \in 1..(Len(s) - 1) : ~(s[i] = "_" /\ s[i + 1] = "_")

RECURSIVE NatOf(_)
NatOf(ds) ==
  IF ds = <<>> THEN 0
  ELSE IF ds[Len(ds)] = "_" THEN NatOf(SubSeq(ds, 1, Len(ds) - 1))
  ELSE NatOf(SubSeq(ds, 1, Len(ds) - 1)) * 10 + DigitVal(ds[Len(ds)])

RECURSIVE CountDigits(_)
CountDigits(ds) ==
  IF ds = <<>> THEN 0
  ELSE (IF IsDigit(Head(ds)) THEN 1 ELSE 0) + CountDigits(Tail(ds))

\* the digits of ds without "_" and without leading zeros
RECURSIVE Significant(_, _)
Significant(ds, leading) ==
  IF ds = <<>> THEN <<>>
  ELSE IF Head(ds) = "_" \/ (leading /\ Head(ds) = "0")
       THEN Significant(Tail(ds), leading)
       ELSE <<Head(ds)>> \o Significant(Tail(ds), FALSE)

\* significant digits kept of a mantissa; the rest only moves the exponent
MantissaDigits == 8

\* exponents beyond this magnitude all give inf or 0.0
ExponentCap == 100000

Ok(v) == [exc |-> "", val |-> v]

Raise(x) == [exc |-> x, val |-> FNone]

DigitOrUnderscore == DigitSet \cup {"_"}

\* the value of the literal with integer digits ip, fraction digits fp and
\* exponent -ex or +ex
FloatOfParts(neg, ip, fp, eneg, ep) ==
  LET sig == Significant(ip \o fp, TRUE)
      kept == SubSeq(sig, 1, IF Len(sig) < MantissaDigits
                             THEN Len(sig) ELSE MantissaDigits)
      esig == Significant(ep, TRUE)
      eabs == IF Len(esig) > 5 THEN ExponentCap ELSE NatOf(esig)
      ex == IF eneg THEN 0 - eabs ELSE eabs
  IN MkFloat(neg, NatOf(kept), ex - CountDigits(fp) + (Len(sig) - Len(kept)))

\* the exponent digits ep, then the end of the text
FloatExpDigits(neg, ip, dot, fp, hasExp, eneg, ep, rest) ==
  IF /\ ip # <<>> \/ fp # <<>>
     /\ ip = <<>> \/ ValidDigitPart(ip)
     /\ fp = <<>> \/ (dot /\ ValidDigitPart(fp))
     /\ IF hasExp THEN ValidDigitPart(ep) ELSE ep = <<>>
     /\ rest = <<>>
  THEN Ok(FloatOfParts(neg, ip, fp, eneg, ep))
  ELSE Raise("ValueError")

\* r is the text after the exponent sign
FloatExpSign(neg, ip, dot, fp, hasExp, eneg, r, el) ==
  FloatExpDigits(neg, ip, dot, fp, hasExp, eneg,
                 SubSeq(r, 1, el), Drop(r, el + 1))

\* r is the text after the exponent marker
FloatExpMark(neg, ip, dot, fp, hasExp, r, esigned) ==
  FloatExpSign(neg, ip, dot, fp, hasExp,
               esigned /\ Head(r) = "-",
               IF esigned THEN Tail(r) ELSE r,
               RunLen(IF esigned THEN Tail(r) ELSE r, DigitOrUnderscore))

\* r is the text after the fraction digits
FloatFracDigits(neg, ip, dot, fp, r, hasExp) ==
  FloatExpMark(neg, ip, dot, fp, hasExp,
               IF hasExp THEN Tail(r) ELSE r,
               /\ hasExp
               /\ Len(r) >= 2
               /\ r[2] \in {"+", "-"})

\* r is the text after the decimal point
FloatPoint(neg, ip, dot, r, fl) ==
  FloatFracDigits(neg, ip, dot, SubSeq(r, 1, fl), Drop(r, fl + 1),
                  /\ fl < Len(r)
                  /\ r[fl + 1] \in {"e", "E"})

\* r is the text after the integer digits
FloatIntDigits(neg, ip, r, dot) ==
  FloatPoint(neg, ip, dot,
             IF dot THEN Tail(r) ELSE r,
             RunLen(IF dot THEN Tail(r) ELSE r, DigitOrUnderscore))

\* body is the text after the sign, il the length of its integer digits
FloatBody(neg, body, il) ==
  IF Lower(body) \in {<<"i", "n", "f">>,
                      <<"i", "n", "f", "i", "n", "i", "t", "y">>}
  THEN Ok(FInf(neg))
  ELSE IF Lower(body) = <<"n", "a", "n">> THEN Ok(FNan)
  ELSE FloatIntDigits(neg, SubSeq(body, 1, il), Drop(body, il + 1),
                      il < Len(body) /\ body[il + 1] = ".")

\* t is the stripped text
FloatSign(t, signed) ==
  FloatBody(t # <<>> /\ Head(t) = "-",
            IF signed THEN Tail(t) ELSE t,
            RunLen(IF signed THEN Tail(t) ELSE t, DigitOrUnderscore))

FloatStripped(t) == FloatSign(t, t # <<>> /\ Head(t) \in {"+", "-"})

\* float(s) for a str s: a value, or ValueError
PyFloat(s) == FloatStripped(Strip(s))

-----------------------------------------------------------------------------
(* _parse_number: scraper_index.py 106-128, scraper_quote.py 85-102.       *)
(* The result is an outcome [exc, val]: exc is "" on a normal return.      *)

\* the exception classes named by the except clause
ParseNumberCaught == {"ValueError", "TypeError"}

\* mutant: the except clause is missing
ParseNumberExcept_mut(f) == f

\* the except clause around float(text)
ParseNumberExcept(f) ==
  IF f.exc = "" THEN f
  ELSE IF f.exc \in ParseNumberCaught THEN Ok(FNone)
  ELSE f

\* "(x)" is read as "-x"
ParenAsNegative(t) ==
  IF StartsWith(t, <<"(">>) /\ EndsWith(t, <<")">>)
  THEN <<"-">> \o SubSeq(t, 2, Len(t) - 1)
  ELSE t

_parse_number(text) ==
  IF text = <<>> THEN Ok(FNone)
  ELSE ParseNumberExcept(
         PyFloat(ParenAsNegative(RemoveCommasSpaces(_clean_text(text)))))

-----------------------------------------------------------------------------
(* _format_symbol: scraper_quote.py 104-129.                               *)

\* re.sub(r"\.(HK|HKG)$", "", s, flags=re.IGNORECASE)
StripHKSuffix(s) ==
  LET u == Upper(s)
  IN IF EndsWith(u, <<".", "H", "K", "G">>) THEN SubSeq(s, 1, Len(s) - 4)
     ELSE IF EndsWith(u, <<".", "H", "K">>) THEN SubSeq(s, 1, Len(s) - 3)
     ELSE s

\* re.search(r"(\d+)", s): the first run of digits, <<>> when there is none
RECURSIVE FirstDigitRun(_)
FirstDigitRun(s) ==
  IF s = <<>> THEN <<>>
  ELSE IF IsDigit(Head(s)) THEN SubSeq(s, 1, RunLen(s, DigitSet))
  ELSE FirstDigitRun(Tail(s))

SymOk(s) == [exc |-> "", val |-> s]

SymRaise(x) == [exc |-> x, val |-> <<>>]

\* mutant: the length test is off by one
_format_symbol_mut(symbol) ==
  IF symbol = <<>> THEN SymRaise("ValueError")
  ELSE IF FirstDigitRun(StripHKSuffix(Upper(Strip(symbol)))) = <<>>
       THEN SymRaise("ValueError")
  ELSE IF Len(FirstDigitRun(StripHKSuffix(Upper(Strip(symbol)))))
            >= 5
       THEN SymRaise("ValueError")
  ELSE SymOk(ZFill(FirstDigitRun(StripHKSuffix(Upper(Strip(symbol)))), 5))

_format_symbol(symbol) ==
  IF symbol = <<>> THEN SymRaise("ValueError")
  ELSE LET s == StripHKSuffix(Upper(Strip(symbol)))
           numeric_part == FirstDigitRun(s)
       IN IF numeric_part = <<>> THEN SymRaise("ValueError")
          ELSE IF Len(numeric_part) > 5
               THEN SymRaise("ValueError")
          ELSE SymOk(ZFill(numeric_part, 5))

-----------------------------------------------------------------------------
(* _parse_change_string: scraper_index.py 130-150.                         *)
(* The pattern ^([+-]?[\d,\.]+)\s*\(([+-]?[\d,\.]+)%\)$ is deterministic:  *)
(* no class overlaps the literal that follows it.                          *)

NumberChars == DigitSet \cup {",", "."}

\* the value of (None, None)
NoChange == [point |-> FNone, percent |-> FNone]

\* the number of characters of class Cls in s from position i on
RECURSIVE RunFrom(_, _, _)
RunFrom(s, i, Cls) ==
  IF i <= Len(s) /\ s[i] \in Cls THEN 1 + RunFrom(s, i + 1, Cls) ELSE 0

\* the position after an optional sign at position i
AfterSign(s, i) == IF i <= Len(s) /\ s[i] \in {"+", "-"} THEN i + 1 ELSE i

\* group 2 is t[c..d-1]; the text must end with "%)"
ChangeTail(t, g1, c, d) ==
  IF /\ d > AfterSign(t, c)
     /\ d + 1 = Len(t)
     /\ t[d] = "%"
     /\ t[d + 1] = ")"
  THEN [point |-> _parse_number(g1).val,
        percent |-> _parse_number(SubSeq(t, c, d - 1)).val]
  ELSE NoChange

\* b is the position after \s*, where "(" must stand
ChangeParen(t, g1, b) ==
  IF b <= Len(t) /\ t[b] = "("
  THEN ChangeTail(t, g1, b + 1,
                  AfterSign(t, b + 1)
                    + RunFrom(t, AfterSign(t, b + 1), NumberChars))
  ELSE NoChange

\* group 1 is t[1..a-1]
ChangeGroup1(t, a) ==
  IF a > AfterSign(t, 1)
  THEN ChangeParen(t, SubSeq(t, 1, a - 1), a + RunFrom(t, a, {" "} \cup {"\t", "\n", "\r"}))
  ELSE NoChange

\* re.match(pattern, t) and the parse of its two groups
ChangeMatch(t) ==
  ChangeGroup1(t, AfterSign(t, 1) + RunFrom(t, AfterSign(t, 1), NumberChars))

_parse_change_string(change_text) ==
  IF change_text = <<>> THEN NoChange
  ELSE ChangeMatch(_clean_text(change_text))

-----------------------------------------------------------------------------
(* _extract_change_data: scraper_index.py 183-216.                         *)
(* The markup is the part of the page the two selectors read:              *)
(*   #hkIdxContainer > div.hkidx-change.cls > span         (present, cls)  *)
(*   #hkIdxContainer > div.hkidx-change.cls > span > span  (inner, arrow)  *)
(* with the inner span first and the text rest after it.                   *)

\* the glyphs U+25B2 (up) and U+25BC (down), each one character
ArrowUp == "U+25B2"

ArrowDown == "U+25BC"

\* element.get_text()
ChangeElementText(markup) ==
  IF markup.inner THEN markup.arrow \o markup.rest ELSE markup.rest

\* re.sub(r"^[▲▼]\s*", "", text)
StripLeadingArrow(text) ==
  IF text # <<>> /\ Head(text) \in {ArrowUp, ArrowDown}
  THEN LStrip(Tail(text))
  ELSE text

\* is_negative: the down glyph is in the inner span's text
ArrowIsNegative(markup) ==
  markup.inner /\ Contains(_clean_text(markup.arrow), <<ArrowDown>>)

\* lines 208-211: the sign is applied to each value that is present
ApplyArrow(is_negative, chg) ==
  [point |-> IF is_negative /\ chg.point.k # "none"
             THEN FNeg(chg.point) ELSE chg.point,
   percent |-> IF is_negative /\ chg.percent.k # "none"
               THEN FNeg(chg.percent) ELSE chg.percent]

_extract_change_data(markup) ==
  IF markup.present
  THEN ApplyArrow(ArrowIsNegative(markup),
                  _parse_change_string(
                    StripLeadingArrow(_clean_text(ChangeElementText(markup)))))
  ELSE NoChange

-----------------------------------------------------------------------------
(* News headlines: scraper_index.py 244-388 and scraper.py 167-247.        *)
(* The page is the sequence of its anchors in document order; an anchor    *)
(* is [text, href, box]: its text, its href ("" when it has none) and      *)
(* whether it lies inside a div/section/article whose class matches        *)
(* news|headline|article.  Hrefs are absolute paths.                       *)

MIN_HEADLINE_LENGTH == 20

MAX_HEADLINE_LENGTH == 200

BASE_URL ==
  <<"h", "t", "t", "p", "s", ":", "/", "/", "w", "w", "w", ".", "a",
    "a", "s", "t", "o", "c", "k", "s", ".", "c", "o", "m">>

MARKET_KEYWORDS ==
  << <<"s", "t", "o", "c", "k">>,
     <<"m", "a", "r", "k", "e", "t">>,
     <<"h", "o", "n", "g", " ", "k", "o", "n", "g">>,
     <<"h", "k">>,
     <<"c", "h", "i", "n", "a">>,
     <<"e", "c", "o", "n", "o", "m", "i", "c">>,
     <<"t", "r", "a", "d", "e">>,
     <<"f", "i", "n", "a", "n", "c", "i", "a", "l">>,
     <<"i", "n", "v", "e", "s", "t", "m", "e", "n", "t">>,
     <<"c", "o", "m", "p", "a", "n", "y">> >>

\* href=re.compile(r"news|article")
HrefIsNews(href) ==
  \/ Contains(href, <<"n", "e", "w", "s">>)
  \/ Contains(href, <<"a", "r", "t", "i", "c", "l", "e">>)

\* urljoin(BASE_URL, href) for an absolute path href
UrlJoin(base, href) == base \o href

\* s[:n] for n >= 0
Prefix(s, n) == SubSeq(s, 1, IF n < Len(s) THEN n ELSE Len(s))

NoHeadline == [some |-> FALSE, headline |-> <<>>, url |-> <<>>]

HeadlineOf(text, href) ==
  IF text = <<>> THEN NoHeadline
  ELSE [some |-> TRUE, headline |-> text,
        url |-> IF href = <<>> THEN <<>> ELSE UrlJoin(BASE_URL, href)]

\* scraper_index.py 351-360; some = FALSE is the None result
_process_headline_link(link) == HeadlineOf(_clean_text(link.text), link.href)

\* the dictionary appended to the list
Entry(h) == [headline |-> h.headline, url |-> h.url]

\* mutant: the keyword test is left out
_is_valid_headline_mut(headline_text) ==
  /\ MIN_HEADLINE_LENGTH <= Len(headline_text)
  /\ Len(headline_text) <= MAX_HEADLINE_LENGTH

_is_valid_headline(headline_text) ==
  /\ MIN_HEADLINE_LENGTH <= Len(headline_text)
  /\ Len(headline_text) <= MAX_HEADLINE_LENGTH
  /\ \E i \in 1..Len(MARKET_KEYWORDS) :
       Contains(Lower(headline_text), MARKET_KEYWORDS[i])

_is_duplicate_headline(headline_text, existing_headlines) ==
  \E i \in 1..Len(existing_headlines) :
    existing_headlines[i].headline = headline_text

RECURSIVE DedupFrom(_, _, _)
DedupFrom(headlines, i, unique) ==
  IF i > Len(headlines) THEN unique
  ELSE DedupFrom(headlines, i + 1,
                 IF _is_duplicate_headline(headlines[i].headline, unique)
                 THEN unique
                 ELSE Append(unique, headlines[i]))

_deduplicate_headlines(headlines) == DedupFrom(headlines, 1, <<>>)

ArticleLinks(doc) == SelectSeq(doc, LAMBDA a : HrefIsNews(a.href))

ContainerLinks(doc) == SelectSeq(doc, LAMBDA a : a.box)

\* the loop of _extract_article_links over links[i..]
RECURSIVE ArticleLoop(_, _, _, _)
ArticleLoop(links, i, limit, headlines) ==
  IF i > Len(links) THEN headlines
  ELSE IF /\ _process_headline_link(links[i]).some
          /\ Len(_process_headline_link(links[i]).headline)
               > MIN_HEADLINE_LENGTH
       THEN IF Len(headlines) + 1 >= limit
            THEN Append(headlines, Entry(_process_headline_link(links[i])))
            ELSE ArticleLoop(links, i + 1, limit,
                   Append(headlines, Entry(_process_headline_link(links[i]))))
       ELSE ArticleLoop(links, i + 1, limit, headlines)

_extract_article_links(doc, limit) ==
  ArticleLoop(Prefix(ArticleLinks(doc), limit * 2), 1, limit, <<>>)

\* the loop of _extract_container_headlines over the container's links[i..]
RECURSIVE ContainerLoop(_, _, _, _)
ContainerLoop(links, i, limit, headlines) ==
  IF i > Len(links) THEN headlines
  ELSE IF /\ _process_headline_link(links[i]).some
          /\ Len(_process_headline_link(links[i]).headline)
               > MIN_HEADLINE_LENGTH
          /\ ~_is_duplicate_headline(
                _process_headline_link(links[i]).headline, headlines)
       THEN IF Len(headlines) + 1 >= limit
            THEN Append(headlines, Entry(_process_headline_link(links[i])))
            ELSE ContainerLoop(links, i + 1, limit,
                   Append(headlines, Entry(_process_headline_link(links[i]))))
       ELSE ContainerLoop(links, i + 1, limit, headlines)

_extract_container_headlines(doc, limit) ==
  IF limit <= 0 THEN <<>>
  ELSE ContainerLoop(ContainerLinks(doc), 1, limit, <<>>)

\* the loop of _extract_filtered_headlines over all links[i..]
RECURSIVE FilteredLoop(_, _, _, _)
FilteredLoop(links, i, limit, headlines) ==
  IF i > Len(links) \/ Len(headlines) >= limit THEN headlines
  ELSE FilteredLoop(links, i + 1, limit,
         IF /\ _process_headline_link(links[i]).some
            /\ _is_valid_headline(_process_headline_link(links[i]).headline)
            /\ ~_is_duplicate_headline(
                  _process_headline_link(links[i]).headline, headlines)
         THEN Append(headlines, Entry(_process_headline_link(links[i])))
         ELSE headlines)

_extract_filtered_headlines(doc, limit) == FilteredLoop(doc, 1, limit, <<>>)

\* lines 268-280: strategy 3, then deduplication and truncation
NewsAfterContainer(doc, limit, headlines) ==
  Prefix(_deduplicate_headlines(
           IF Len(headlines) < limit
           THEN headlines
                  \o _extract_filtered_headlines(doc, limit - Len(headlines))
           ELSE headlines),
         limit)

\* mutant: the container headlines are put before the direct ones
NewsAfterDirect_mut(doc, limit, headlines) ==
  NewsAfterContainer(doc, limit,
    IF Len(headlines) < limit
    THEN _extract_container_headlines(doc, limit - Len(headlines))
           \o headlines
    ELSE headlines)

\* lines 262-266: strategy 2
NewsAfterDirect(doc, limit, headlines) ==
  NewsAfterContainer(doc, limit,
    IF Len(headlines) < limit
    THEN headlines
           \o _extract_container_headlines(doc, limit - Len(headlines))
    ELSE headlines)

\* get_news_headlines of scraper_index.py on a fetched page
get_news_headlines(doc, limit) ==
  NewsAfterDirect(doc, limit, _extract_article_links(doc, limit))

\* scraper.py 177-191: method 1
RECURSIVE LegacyArticleLoop(_, _, _, _)
LegacyArticleLoop(links, i, limit, headlines) ==
  IF i > Len(links) THEN headlines
  ELSE IF /\ _clean_text(links[i].text) # <<>>
          /\ Len(_clean_text(links[i].text)) > 20
       THEN IF Len(headlines) + 1 >= limit
            THEN Append(headlines, Entry(_process_headline_link(links[i])))
            ELSE LegacyArticleLoop(links, i + 1, limit,
                   Append(headlines, Entry(_process_headline_link(links[i]))))
       ELSE LegacyArticleLoop(links, i + 1, limit, headlines)

\* scraper.py 194-215: method 2, on the list collected so far
RECURSIVE LegacyContainerLoop(_, _, _, _)
LegacyContainerLoop(links, i, limit, headlines) ==
  IF i > Len(links) THEN headlines
  ELSE IF /\ _clean_text(links[i].text) # <<>>
          /\ Len(_clean_text(links[i].text)) > 20
          /\ ~_is_duplicate_headline(_clean_text(links[i].text), headlines)
       THEN IF Len(headlines) + 1 >= limit
            THEN Append(headlines, Entry(_process_headline_link(links[i])))
            ELSE LegacyContainerLoop(links, i + 1, limit,
                   Append(headlines, Entry(_process_headline_link(links[i]))))
       ELSE LegacyContainerLoop(links, i + 1, limit, headlines)

\* scraper.py 218-240: method 3, on the list collected so far
RECURSIVE LegacyFilteredLoop(_, _, _, _)
LegacyFilteredLoop(links, i, limit, headlines) ==
  IF i > Len(links) THEN headlines
  ELSE IF /\ _clean_text(links[i].text) # <<>>
          /\ _is_valid_headline(_clean_text(links[i].text))
          /\ ~_is_duplicate_headline(_clean_text(links[i].text), headlines)
       THEN IF Len(headlines) + 1 >= limit
            THEN Append(headlines, Entry(_process_headline_link(links[i])))
            ELSE LegacyFilteredLoop(links, i + 1, limit,
                   Append(headlines, Entry(_process_headline_link(links[i]))))
       ELSE LegacyFilteredLoop(links, i + 1, limit, headlines)

LegacyAfterContainer(doc, limit, headlines) ==
  Prefix(IF Len(headlines) < limit
         THEN LegacyFilteredLoop(doc, 1, limit, headlines)
         ELSE headlines,
         limit)

LegacyAfterDirect(doc, limit, headlines) ==
  LegacyAfterContainer(doc, limit,
    IF Len(headlines) < limit
    THEN LegacyContainerLoop(ContainerLinks(doc), 1, limit, headlines)
    ELSE headlines)

\* get_news_headlines of scraper.py on a fetched page
legacy_get_news_headlines(doc, limit) ==
  LegacyAfterDirect(doc, limit,
    LegacyArticleLoop(Prefix(ArticleLinks(doc), limit * 2), 1, limit, <<>>))

-----------------------------------------------------------------------------
(* Stock quotes: scraper_quote.py 557-716.  A decoded JSON value is a      *)
(* record with a kind; an object carries the four fields the code reads,   *)
(* each a JSON value or JAbsent when the key is missing.                   *)

JNull == [kind |-> "null"]

JAbsent == [kind |-> "absent"]

\* a JSON number; zero is the falsy one
JNum(nonzero) == [kind |-> "number", nonzero |-> nonzero]

JStr(s) == [kind |-> "string", s |-> s]

JObj(a, b, d, e) == [kind |-> "object", a |-> a, b |-> b, d |-> d, e |-> e]

JList(items) == [kind |-> "list", items |-> items]

\* bool(value)
Truthy(v) ==
  CASE v.kind = "null" -> FALSE
    [] v.kind = "number" -> v.nonzero
    [] v.kind = "string" -> v.s # <<>>
    [] v.kind = "list" -> v.items # <<>>
    [] v.kind = "object" -> \E f \in {v.a, v.b, v.d, v.e} : f # JAbsent

\* stock_data.get(key, "")
GetOr(v) == IF v = JAbsent THEN JStr(<<>>) ELSE v

\* _parse_number on a JSON value: _clean_text calls text.strip() before
\* the try block, which only a string has
ParseNumberField(v) ==
  IF ~Truthy(v) THEN Ok(FNone)
  ELSE IF v.kind = "string" THEN _parse_number(v.s)
  ELSE Raise("AttributeError")

ClassPos == <<"c", "l", "a", "s", "s", "=", "'", "p", "o", "s", "'">>

ClassNeg == <<"c", "l", "a", "s", "s", "=", "'", "n", "e", "g", "'">>

\* lines 563-567
ChangeDirection(html_str) ==
  IF Contains(html_str, ClassPos) THEN "up"
  ELSE IF Contains(html_str, ClassNeg) THEN "down"
  ELSE "unchanged"

\* the rest of s after the ">" that ends a tag
RECURSIVE AfterTag(_)
AfterTag(s) ==
  IF s = <<>> THEN <<>>
  ELSE IF Head(s) = ">" THEN Tail(s)
  ELSE AfterTag(Tail(s))

\* BeautifulSoup(html_str, "html.parser").get_text() on complete tags
RECURSIVE GetText(_)
GetText(s) ==
  IF s = <<>> THEN <<>>
  ELSE IF Head(s) = "<" THEN GetText(AfterTag(Tail(s)))
  ELSE <<Head(s)>> \o GetText(Tail(s))

\* mutant: the class is consulted before the sign character
ApplyChangeSign_mut(v, sign_prefix, direction) ==
  IF v.k = "none" THEN v
  ELSE IF direction = "down" THEN FNeg(FAbs(v))
  ELSE IF direction = "up" THEN FAbs(v)
  ELSE IF sign_prefix = "-" THEN FNeg(FAbs(v))
  ELSE IF sign_prefix = "+" THEN FAbs(v)
  ELSE v

\* lines 584-588 and 592-596
ApplyChangeSign(v, sign_prefix, direction) ==
  IF v.k = "none" THEN v
  ELSE IF sign_prefix = "-" \/ direction = "down" THEN FNeg(FAbs(v))
  ELSE IF sign_prefix = "+" \/ direction = "up" THEN FAbs(v)
  ELSE v

\* (None, None, "unknown")
UnknownChange == [change |-> FNone, percent |-> FNone, direction |-> "unknown"]

\* group 1 of the pattern: "" or the sign at the start of the text
SignPrefix(t) == IF AfterSign(t, 1) = 2 THEN t[1] ELSE ""

\* group 3 is t[c..d-1]; "%)" must follow it
HtmlChangeTail(t, direction, a, c, d) ==
  IF /\ d > AfterSign(t, c)
     /\ d + 1 <= Len(t)
     /\ t[d] = "%"
     /\ t[d + 1] = ")"
  THEN [change |->
          ApplyChangeSign(_parse_number(SubSeq(t, AfterSign(t, 1), a - 1)).val,
                          SignPrefix(t), direction),
        percent |->
          ApplyChangeSign(_parse_number(SubSeq(t, c, d - 1)).val,
                          SignPrefix(t), direction),
        direction |-> direction]
  ELSE UnknownChange

\* group 2 is t[AfterSign(t, 1)..a-1]; "(" must follow it
HtmlChangeGroup2(t, direction, a) ==
  IF a > AfterSign(t, 1) /\ a <= Len(t) /\ t[a] = "("
  THEN HtmlChangeTail(t, direction, a, a + 1,
                      AfterSign(t, a + 1)
                        + RunFrom(t, AfterSign(t, a + 1), NumberChars))
  ELSE UnknownChange

\* re.match(r"([+-]?)([0-9,.]+)\(([+-]?[0-9,.]+)%\)", text)
HtmlChangeMatch(t, direction) ==
  HtmlChangeGroup2(t, direction,
                   AfterSign(t, 1) + RunFrom(t, AfterSign(t, 1), NumberChars))

_parse_change_html(html_str) ==
  HtmlChangeMatch(Strip(GetText(html_str)), ChangeDirection(html_str))

\* _parse_change_html on a JSON value: the membership test on a value that
\* is no string raises TypeError inside the try block
ParseChangeHtmlField(v) ==
  IF v.kind = "string" THEN _parse_change_html(v.s) ELSE UnknownChange

None == "None"

UnitChars == {"K", "M", "B", "T"}

NoTurnover == [value |-> FNone, unit |-> None]

\* re.match(r"([0-9,.]+)([KMBT]?)", t): n is the length of group 1
TurnoverMatch(t, n) ==
  IF n = 0 THEN NoTurnover
  ELSE [value |-> _parse_number(SubSeq(t, 1, n)).val,
        unit |-> IF n + 1 <= Len(t) /\ t[n + 1] \in UnitChars
                 THEN t[n + 1]
                 ELSE None]

_parse_turnover(turnover_str) ==
  IF turnover_str = <<>> THEN NoTurnover
  ELSE TurnoverMatch(Strip(turnover_str),
                     RunFrom(Strip(turnover_str), 1, NumberChars))

\* _parse_turnover on a JSON value: strip() on a value that is no string
\* raises AttributeError inside the try block
ParseTurnoverField(v) ==
  IF ~Truthy(v) THEN NoTurnover
  ELSE IF v.kind = "string" THEN _parse_turnover(v.s)
  ELSE NoTurnover

QUOTE_URL_TEMPLATE ==
  "http://www.aastocks.com/en/stocks/quote/quick-quote.aspx?symbol={symbol}"

AJAX_URL_TEMPLATE ==
  "http://www.aastocks.com/en/resources/datafeed/getrtqsymbol.ashx?s={symbol}"

\* template.format(symbol=symbol)
FormatUrl(template, symbol) == [template |-> template, symbol |-> symbol]

\* the except clause of get_stock_quote: RuntimeError wrapping the cause
QuoteRaise(cause) == [exc |-> "RuntimeError", cause |-> cause, val |-> <<>>]

QuoteOk(quote) == [exc |-> "", cause |-> "", val |-> quote]

NoDataReturned == "ValueError: No data returned for symbol"

\* lines 679-712, given the parsed price
QuoteFrom(formatted_symbol, company_name, stock_data, now, price) ==
  IF price.exc # "" THEN QuoteRaise(price.exc)
  ELSE QuoteOk(
    [symbol |-> formatted_symbol,
     company_name |-> company_name,
     current_price |-> price.val,
     price_change |-> ParseChangeHtmlField(GetOr(stock_data.b)).change,
     price_change_percent |-> ParseChangeHtmlField(GetOr(stock_data.b)).percent,
     turnover |-> ParseTurnoverField(GetOr(stock_data.d)).value,
     turnover_unit |-> ParseTurnoverField(GetOr(stock_data.d)).unit,
     last_updated_time |-> GetOr(stock_data.e),
     timestamp |-> now,
     source |-> "AAStocks",
     url |-> FormatUrl(QUOTE_URL_TEMPLATE, formatted_symbol)])

\* lines 676-679: element zero; get() exists on an object only
QuoteOfElement(formatted_symbol, company_name, stock_data, now) ==
  IF stock_data.kind # "object" THEN QuoteRaise("AttributeError")
  ELSE QuoteFrom(formatted_symbol, company_name, stock_data, now,
                 ParseNumberField(GetOr(stock_data.a)))

\* lines 665-676: the response is an HTTP failure, a body that is no JSON,
\* or a decoded value
QuoteOfResponse(formatted_symbol, company_name, response, now) ==
  IF response.kind = "http_error" THEN QuoteRaise("RequestException")
  ELSE IF response.kind = "invalid_json" THEN QuoteRaise("JSONDecodeError")
  ELSE IF ~Truthy(response.data) \/ response.data.kind # "list"
       THEN QuoteRaise(NoDataReturned)
  ELSE QuoteOfElement(formatted_symbol, company_name,
                      response.data.items[1], now)

\* get_stock_quote without its fetch: the symbol is formatted first
get_stock_quote(symbol, company_name, response, now) ==
  IF _format_symbol(symbol).exc # ""
  THEN QuoteRaise(_format_symbol(symbol).exc)
  ELSE QuoteOfResponse(_format_symbol(symbol).val, company_name, response, now)

-----------------------------------------------------------------------------
(* Reading the model's answer to a symbol lookup: gemini_client.py 368-433. *)

\* the regex class \w
WordChars ==
  DigitSet \cup {LowerAlpha[i] : i \in 1..26}
           \cup {UpperAlpha[i] : i \in 1..26} \cup {"_"}

\* the regex class \s
SpaceChars == {" ", "\t", "\n", "\r"}

\* \b between s[i-1] and s[i]
WordBoundary(s, i) ==
  (i > 1 /\ s[i - 1] \in WordChars) # (i <= Len(s) /\ s[i] \in WordChars)

\* p occurs in s at position i under re.IGNORECASE
MatchAtIgnoreCase(s, p, i) ==
  i + Len(p) - 1 <= Len(s) /\ Lower(SubSeq(s, i, i + Len(p) - 1)) = Lower(p)

\* the number of characters "." matches in s from position i on
RECURSIVE DotRun(_, _)
DotRun(s, i) ==
  IF i <= Len(s) /\ s[i] # "\n" THEN 1 + DotRun(s, i + 1) ELSE 0

Least(S) == CHOOSE x \in S : \A y \in S : x <= y

Greatest(S) == CHOOSE x \in S : \A y \in S : x >= y

NOT_FOUND == <<"N", "O", "T", "_", "F", "O", "U", "N", "D">>

\* mutant: the test is made on the text as written
IsNotFound_mut(response_text) == Contains(response_text, NOT_FOUND)

\* "NOT_FOUND" in response_text.upper()
IsNotFound(response_text) == Contains(Upper(response_text), NOT_FOUND)

SymbolLabel == <<"S", "y", "m", "b", "o", "l", ":">>

CompanyLabel == <<"C", "o", "m", "p", "a", "n", "y", ":">>

\* Symbol:\s*  starting at i: where group 1 starts
SymbolDigitsAt(s, i) ==
  i + Len(SymbolLabel) + RunFrom(s, i + Len(SymbolLabel), SpaceChars)

\* where group 1 ends: the position of the comma
SymbolCommaAt(s, i) ==
  SymbolDigitsAt(s, i) + RunFrom(s, SymbolDigitsAt(s, i), DigitSet)

\* ,\s*  where "Company:" must stand
CompanyAt(s, i) ==
  SymbolCommaAt(s, i) + 1 + RunFrom(s, SymbolCommaAt(s, i) + 1, SpaceChars)

\* the position after Company:\s* with \s* taking all it can
NameAt(s, i) ==
  CompanyAt(s, i) + Len(CompanyLabel)
    + RunFrom(s, CompanyAt(s, i) + Len(CompanyLabel), SpaceChars)

\* where group 2 starts: after the white space when a character follows it,
\* else at the last white space that is no newline (\s* gives it back);
\* 0 when (.+) has nothing to match
GroupStart(s, i) ==
  IF NameAt(s, i) <= Len(s) THEN NameAt(s, i)
  ELSE IF \E p \in (CompanyAt(s, i) + Len(CompanyLabel))..Len(s) : s[p] # "\n"
       THEN Greatest({p \in (CompanyAt(s, i) + Len(CompanyLabel))..Len(s) :
                        s[p] # "\n"})
       ELSE 0

\* the pattern Symbol:\s*(\d{1,5}),\s*Company:\s*(.+) matches at i
StructuredAt(s, i) ==
  /\ MatchAtIgnoreCase(s, SymbolLabel, i)
  /\ SymbolCommaAt(s, i) - SymbolDigitsAt(s, i) \in 1..5
  /\ SymbolCommaAt(s, i) <= Len(s)
  /\ s[SymbolCommaAt(s, i)] = ","
  /\ MatchAtIgnoreCase(s, CompanyLabel, CompanyAt(s, i))
  /\ GroupStart(s, i) > 0

\* re.search: the positions where the pattern matches
StructuredStarts(s) == {i \in 1..Len(s) : StructuredAt(s, i)}

\* match.group(1) and match.group(2).strip() of the match at i
SymbolGroup(s, i) == SubSeq(s, SymbolDigitsAt(s, i), SymbolCommaAt(s, i) - 1)

\* mutant: the captured text is not trimmed
CompanyGroup_mut(s, i) ==
  SubSeq(s, GroupStart(s, i), GroupStart(s, i) + DotRun(s, GroupStart(s, i)) - 1)

CompanyGroup(s, i) ==
  Strip(SubSeq(s, GroupStart(s, i),
               GroupStart(s, i) + DotRun(s, GroupStart(s, i)) - 1))

\* \b(\d{5})\b matches at i
FiveDigitAt(s, i) ==
  /\ WordBoundary(s, i)
  /\ i + 4 <= Len(s)
  /\ \A d \in 0..4 : s[i + d] \in DigitSet
  /\ WordBoundary(s, i + 5)

\* mutant: the pattern is \b(\d{4})\b
ShortDigitLens_mut(s, i) ==
  {k \in {4} : /\ WordBoundary(s, i)
               /\ RunFrom(s, i, DigitSet) >= k
               /\ WordBoundary(s, i + k)}

\* the lengths k with which \b(\d{1,4})\b matches at i
ShortDigitLens(s, i) ==
  {k \in 1..4 : /\ WordBoundary(s, i)
                /\ RunFrom(s, i, DigitSet) >= k
                /\ WordBoundary(s, i + k)}

\* the lengths k with which \b(\d{1,5})\.HK\b matches at i
HKDigitLens(s, i) ==
  {k \in 1..5 : /\ WordBoundary(s, i)
                /\ RunFrom(s, i, DigitSet) >= k
                /\ MatchAtIgnoreCase(s, <<".", "H", "K">>, i + k)
                /\ WordBoundary(s, i + k + 3)}

FiveDigitStarts(s) == {i \in 1..Len(s) : FiveDigitAt(s, i)}

ShortDigitStarts(s) == {i \in 1..Len(s) : ShortDigitLens(s, i) # {}}

HKStarts(s) == {i \in 1..Len(s) : HKDigitLens(s, i) # {}}

\* the text of s from i of the greatest length in Lens
DigitsAt(s, i, Lens) == SubSeq(s, i, i + Greatest(Lens) - 1)

\* mutant: the short run is tried before the run of five digits
_extract_symbol_from_response_mut(response_text) ==
  IF response_text = <<>> THEN <<>>
  ELSE IF IsNotFound(response_text) THEN <<>>
  ELSE IF ShortDigitStarts(response_text) # {}
       THEN ZFill(DigitsAt(response_text,
                           Least(ShortDigitStarts(response_text)),
                           ShortDigitLens(response_text,
                             Least(ShortDigitStarts(response_text)))), 5)
  ELSE IF FiveDigitStarts(response_text) # {}
       THEN SubSeq(response_text, Least(FiveDigitStarts(response_text)),
                   Least(FiveDigitStarts(response_text)) + 4)
  ELSE <<>>

\* the symbol, or <<>> for None
_extract_symbol_from_response(response_text) ==
  IF response_text = <<>> THEN <<>>
  ELSE IF IsNotFound(response_text) THEN <<>>
  ELSE IF FiveDigitStarts(response_text) # {}
       THEN SubSeq(response_text, Least(FiveDigitStarts(response_text)),
                   Least(FiveDigitStarts(response_text)) + 4)
  ELSE IF ShortDigitStarts(response_text) # {}
       THEN ZFill(DigitsAt(response_text,
                           Least(ShortDigitStarts(response_text)),
                           ShortDigitLens(response_text,
                             Least(ShortDigitStarts(response_text)))), 5)
  ELSE IF HKStarts(response_text) # {}
       THEN ZFill(DigitsAt(response_text, Least(HKStarts(response_text)),
                           HKDigitLens(response_text,
                                       Least(HKStarts(response_text)))), 5)
  ELSE <<>>

\* the value None of the lookup
NotFound == [found |-> FALSE, symbol |-> <<>>, company_name |-> <<>>]

Found(symbol, company_name) ==
  [found |-> TRUE, symbol |-> symbol, company_name |-> company_name]

GenericCompany == <<"C", "o", "m", "p", "a", "n", "y", " ">>

\* lines 397-404
SymbolOnly(symbol) ==
  IF symbol # <<>> THEN Found(symbol, GenericCompany \o symbol) ELSE NotFound

\* mutant: the length of the company name is not tested
StructuredResult_mut(s, i) ==
  Found(ZFill(SymbolGroup(s, i), 5), CompanyGroup(s, i))

\* lines 386-404, the pattern having matched at i
StructuredResult(s, i) ==
  IF Len(CompanyGroup(s, i)) > 2
  THEN Found(ZFill(SymbolGroup(s, i), 5), CompanyGroup(s, i))
  ELSE SymbolOnly(_extract_symbol_from_response(s))

_extract_symbol_and_company_from_response(response_text) ==
  IF response_text = <<>> THEN NotFound
  ELSE IF IsNotFound(response_text) THEN NotFound
  ELSE IF StructuredStarts(response_text) # {}
       THEN StructuredResult(response_text,
                             Least(StructuredStarts(response_text)))
  ELSE SymbolOnly(_extract_symbol_from_response(response_text))

-----------------------------------------------------------------------------
(* get_hsi_data: scraper_index.py 152-242.                                 *)
(* The page is [point, turnover, change, faults]: the element chosen by    *)
(* each CSS selector ([present, text]; the change element as taken by      *)
(* _extract_change_data) and the set of extractions in which a call on the *)
(* parsed page raises (select_one raises when the selector engine is       *)
(* missing).                                                               *)

HSI_URL ==
  "https://www.aastocks.com/en/stocks/market/index/hk-index-con.aspx?index=HSI"

NEWS_URL == "https://www.aastocks.com/en/stocks/news/aafn/popular-news"

\* _get_page raises requests.RequestException when the fetch fails
FetchFailed == [exc |-> "RequestException", val |-> <<>>]

NoElement == [present |-> FALSE, text |-> <<>>]

Element(text) == [present |-> TRUE, text |-> text]

\* the body of an extraction: it raises when a call on the page raises
Selected(soup, field, v) ==
  IF field \in soup.faults
  THEN [exc |-> "Exception", val |-> v]
  ELSE [exc |-> "", val |-> v]

\* mutant: the extraction has no except clause
ExtractExcept_mut(o, none) == o

\* except Exception: the extraction logs a warning and returns None
ExtractExcept(o, none) ==
  IF o.exc = "" THEN o ELSE [exc |-> "", val |-> none]

\* the text of an element, parsed as a number
NumberOfElement(element) ==
  IF element.present
  THEN _parse_number(_clean_text(element.text)).val
  ELSE FNone

_extract_current_point(soup) ==
  ExtractExcept(Selected(soup, "point", NumberOfElement(soup.point)), FNone)

ScaleUnits == {"B", "M", "K"}

\* the power of ten of {"B": 1e9, "M": 1e6, "K": 1e3}
UnitExponent(unit) ==
  IF unit = "B" THEN 9 ELSE IF unit = "M" THEN 6 ELSE 3

\* ([\d,\.]+)\s*([BMK]) from position i: where the unit letter has to be
UnitPos(t, i) ==
  i + RunFrom(t, i, NumberChars)
    + RunFrom(t, i + RunFrom(t, i, NumberChars), SpaceChars)

\* the pattern matches from position i (re.I)
ScaledAt(t, i) ==
  /\ RunFrom(t, i, NumberChars) >= 1
  /\ UnitPos(t, i) <= Len(t)
  /\ UpperChar(t[UnitPos(t, i)]) \in ScaleUnits

\* where re.search(r"([\d,\.]+)\s*([BMK])", t, re.I) can match
ScaledStarts(t) == {i \in 1..Len(t) : ScaledAt(t, i)}

\* group 1 of the match at i, parsed
ScaledValue(t, i) ==
  _parse_number(SubSeq(t, i, i + RunFrom(t, i, NumberChars) - 1)).val

\* value * multiplier for the match at i
ScaledTurnover(t, i) ==
  FScale(ScaledValue(t, i), UnitExponent(UpperChar(t[UnitPos(t, i)])))

\* lines 168-178 on the cleaned text of the element
TurnoverOfText(t) ==
  IF ScaledStarts(t) # {} /\ FTruthy(ScaledValue(t, Least(ScaledStarts(t))))
  THEN ScaledTurnover(t, Least(ScaledStarts(t)))
  ELSE _parse_number(t).val

TurnoverOfElement(element) ==
  IF element.present THEN TurnoverOfText(_clean_text(element.text)) ELSE FNone

_extract_turnover(soup) ==
  ExtractExcept(Selected(soup, "turnover", TurnoverOfElement(soup.turnover)),
                FNone)

\* _extract_change_data with its except clause
ChangeDataOf(soup) ==
  ExtractExcept(Selected(soup, "change", _extract_change_data(soup.change)),
                NoChange)

Snapshot(current_point, change, turnover, now) ==
  [current_point |-> current_point,
   daily_change_point |-> change.point,
   daily_change_percent |-> change.percent,
   turnover |-> turnover,
   timestamp |-> now,
   source |-> "AAStocks",
   url |-> HSI_URL]

\* raise RuntimeError(f"Failed to parse HSI data: {e}")
ParseFailed == [exc |-> "RuntimeError", val |-> <<>>]

\* lines 224-242 on the outcomes of the three extractions
SnapshotOf(point, turnover, change, now) ==
  IF point.exc = "" /\ turnover.exc = "" /\ change.exc = ""
  THEN [exc |-> "", val |-> Snapshot(point.val, change.val, turnover.val, now)]
  ELSE ParseFailed

\* lines 224-242, the page having been fetched
get_hsi_data(soup, now) ==
  SnapshotOf(_extract_current_point(soup), _extract_turnover(soup),
             ChangeDataOf(soup), now)

-----------------------------------------------------------------------------
(* get_hsi_data: scraper.py 73-165.                                        *)
(* The page is [rows, classed, labels]: the table rows in document order,  *)
(* each the texts of its cells; the texts of the span, div and td elements *)
(* whose class matches price|value|index; and, for every text node that    *)
(* matches turnover|volume, the texts of the elements that follow its      *)
(* parent.  No call inside the try block raises on a parsed page: every    *)
(* text is a str and _parse_number catches the errors of float.            *)

\* re.match(r'^\d{1,2},?\d{3,5}', t)
LooksLikeIndexValue(t) ==
  \E a \in 1..2 :
    /\ RunFrom(t, 1, DigitSet) >= a
    /\ \/ RunFrom(t, a + 1, DigitSet) >= 3
       \/ /\ a + 1 <= Len(t)
          /\ t[a + 1] = ","
          /\ RunFrom(t, a + 2, DigitSet) >= 3

\* re.match(r'^[+-]?\d+', t) and '.' in t
LooksLikeChange(t) ==
  RunFrom(t, AfterSign(t, 1), DigitSet) >= 1 /\ Contains(t, <<".">>)

\* str.replace(c, '')
RECURSIVE RemoveChar(_, _)
RemoveChar(s, c) ==
  IF s = <<>> THEN <<>>
  ELSE IF Head(s) = c THEN RemoveChar(Tail(s), c)
  ELSE <<Head(s)>> \o RemoveChar(Tail(s), c)

\* ' '.join(texts)
RECURSIVE JoinSpace(_)
JoinSpace(texts) ==
  IF texts = <<>> THEN <<>>
  ELSE IF Len(texts) = 1 THEN Head(texts)
  ELSE Head(texts) \o <<" ">> \o JoinSpace(Tail(texts))

\* the four values before any method has run
NothingFound ==
  [current_point |-> FNone, daily_change_point |-> FNone,
   daily_change_percent |-> FNone, turnover |-> FNone]

\* lines 101-109 on the cleaned text of one cell
LegacyCell(st, cell_text) ==
  IF LooksLikeIndexValue(cell_text)
  THEN [st EXCEPT !.current_point = _parse_number(cell_text).val]
  ELSE IF LooksLikeChange(cell_text)
       THEN IF st.daily_change_point = FNone
            THEN [st EXCEPT !.daily_change_point = _parse_number(cell_text).val]
            ELSE st
  ELSE IF Contains(cell_text, <<"%">>)
       THEN [st EXCEPT !.daily_change_percent =
                          _parse_number(RemoveChar(cell_text, "%")).val]
  ELSE st

RECURSIVE LegacyCells(_, _, _)
LegacyCells(st, cells, i) ==
  IF i > Len(cells) THEN st
  ELSE LegacyCells(LegacyCell(st, _clean_text(cells[i])), cells, i + 1)

\* lines 94-109 on one row
LegacyRow(st, cells) ==
  IF /\ Len(cells) >= 4
     /\ \/ Contains(JoinSpace(cells), <<"H", "S", "I">>)
        \/ Contains(JoinSpace(cells),
                    <<"H", "a", "n", "g", " ", "S", "e", "n", "g">>)
  THEN LegacyCells(st, cells, 1)
  ELSE st

\* Method 1
RECURSIVE LegacyRows(_, _, _)
LegacyRows(st, rows, i) ==
  IF i > Len(rows) THEN st
  ELSE LegacyRows(LegacyRow(st, rows[i]), rows, i + 1)

\* Method 2: the first classed element that looks like an index value
RECURSIVE LegacyClassed(_, _, _)
LegacyClassed(st, classed, i) ==
  IF i > Len(classed) THEN st
  ELSE IF LooksLikeIndexValue(_clean_text(classed[i]))
       THEN [st EXCEPT !.current_point =
                          _parse_number(_clean_text(classed[i])).val]
  ELSE LegacyClassed(st, classed, i + 1)

\* re.search(r'\d+.*[BMK]', t, re.I)
HasDigitThenUnit(t) ==
  \E i \in 1..Len(t) : \E j \in (i + 1)..Len(t) :
    t[i] \in DigitSet /\ UpperChar(t[j]) \in ScaleUnits

\* lines 131-138: the sibling text gives a turnover
GivesTurnover(t) ==
  /\ HasDigitThenUnit(t)
  /\ ScaledStarts(t) # {}
  /\ FTruthy(ScaledValue(t, Least(ScaledStarts(t))))

\* the first three elements that follow the parent of a label
RECURSIVE LegacySiblings(_, _, _)
LegacySiblings(st, siblings, i) ==
  IF i > Len(siblings) \/ i > 3 THEN st
  ELSE IF GivesTurnover(_clean_text(siblings[i]))
       THEN [st EXCEPT !.turnover =
               ScaledTurnover(_clean_text(siblings[i]),
                              Least(ScaledStarts(_clean_text(siblings[i]))))]
  ELSE LegacySiblings(st, siblings, i + 1)

\* Method 3
RECURSIVE LegacyLabels(_, _, _)
LegacyLabels(st, labels, i) ==
  IF i > Len(labels) THEN st
  ELSE LegacyLabels(LegacySiblings(st, labels[i], 1), labels, i + 1)

\* \d{1,2},?\d{3,5}(?:\.\d{1,2})?\b from position i with a leading digits,
\* c commas, b further digits and f characters of fraction
NumberShape(s, i, a, c, b, f) ==
  /\ RunFrom(s, i, DigitSet) >= a
  /\ c = 1 => (i + a <= Len(s) /\ s[i + a] = ",")
  /\ RunFrom(s, i + a + c, DigitSet) >= b
  /\ f > 0 => /\ i + a + c + b <= Len(s)
              /\ s[i + a + c + b] = "."
              /\ RunFrom(s, i + a + c + b + 1, DigitSet) >= f - 1
  /\ WordBoundary(s, i + a + c + b + f)

NumberShapes(s, i) ==
  { sh \in (1..2) \X (0..1) \X (3..5) \X {0, 2, 3} :
      WordBoundary(s, i) /\ NumberShape(s, i, sh[1], sh[2], sh[3], sh[4]) }

\* the order in which the greedy quantifiers give their characters back
ShapeRank(sh) == sh[1] * 1000 + sh[2] * 100 + sh[3] * 10 + sh[4]

ShapeLen(sh) == sh[1] + sh[2] + sh[3] + sh[4]

\* the length of the match at i, 0 when there is none
NumberLenAt(s, i) ==
  IF NumberShapes(s, i) = {} THEN 0
  ELSE ShapeLen(CHOOSE sh \in NumberShapes(s, i) :
                  \A o \in NumberShapes(s, i) : ShapeRank(sh) >= ShapeRank(o))

\* re.findall(r'\b\d{1,2},?\d{3,5}(?:\.\d{1,2})?\b', s) from position i
RECURSIVE FindNumbers(_, _)
FindNumbers(s, i) ==
  IF i > Len(s) THEN <<>>
  ELSE IF NumberLenAt(s, i) > 0
       THEN <<SubSeq(s, i, i + NumberLenAt(s, i) - 1)>>
              \o FindNumbers(s, i + NumberLenAt(s, i))
  ELSE FindNumbers(s, i + 1)

\* the whole part of a finite float that is not negative, for e < 0
WholePart(v) == IF 0 - v.e > 9 THEN 0 ELSE v.m \div Pow10(0 - v.e)

\* v >= n for an integer n > 0
FAtLeast(v, n) ==
  \/ v.k = "inf" /\ ~v.neg
  \/ /\ v.k = "fin"
     /\ ~v.neg
     /\ IF v.e >= 0
        THEN v.e + NumDigits(v.m) > 9 \/ v.m * Pow10(v.e) >= n
        ELSE WholePart(v) >= n

\* v <= n for an integer n > 0
FAtMost(v, n) ==
  \/ v.k = "inf" /\ v.neg
  \/ /\ v.k = "fin"
     /\ \/ v.neg
        \/ IF v.e >= 0
           THEN v.e + NumDigits(v.m) <= 9 /\ v.m * Pow10(v.e) <= n
           ELSE WholePart(v) < n

\* num and 15000 <= num <= 35000
InIndexRange(num) ==
  FTruthy(num) /\ FAtLeast(num, 15000) /\ FAtMost(num, 35000)

\* Method 4: the first number of the page that lies in the range
RECURSIVE FirstInRange(_, _)
FirstInRange(numbers, i) ==
  IF i > Len(numbers) THEN FNone
  ELSE IF InIndexRange(_parse_number(numbers[i]).val)
       THEN _parse_number(numbers[i]).val
  ELSE FirstInRange(numbers, i + 1)

\* soup.get_text(): the texts of the page in document order
RECURSIVE ConcatAll(_)
ConcatAll(groups) ==
  IF groups = <<>> THEN <<>>
  ELSE Concat(Head(groups)) \o ConcatAll(Tail(groups))

TurnoverLabel == <<"T", "u", "r", "n", "o", "v", "e", "r">>

RECURSIVE LabelTexts(_)
LabelTexts(labels) ==
  IF labels = <<>> THEN <<>>
  ELSE TurnoverLabel \o Concat(Head(labels)) \o LabelTexts(Tail(labels))

AllText(page) ==
  ConcatAll(page.rows) \o Concat(page.classed) \o LabelTexts(page.labels)

LegacyMethod2(st, page) ==
  IF st.current_point = FNone THEN LegacyClassed(st, page.classed, 1) ELSE st

LegacyMethod4(st, page) ==
  IF st.current_point = FNone
  THEN [st EXCEPT !.current_point = FirstInRange(FindNumbers(AllText(page), 1), 1)]
  ELSE st

LegacyFound(page) ==
  LegacyMethod4(
    LegacyLabels(LegacyMethod2(LegacyRows(NothingFound, page.rows, 1), page),
                 page.labels, 1),
    page)

\* lines 153-161: the snapshot of the four values found
LegacySnapshot(found, now) ==
  Snapshot(found.current_point,
           [point |-> found.daily_change_point,
            percent |-> found.daily_change_percent],
           found.turnover, now)

\* lines 79-165, the page having been fetched
legacy_get_hsi_data(page, now) ==
  [exc |-> "", val |-> LegacySnapshot(LegacyFound(page), now)]

-----------------------------------------------------------------------------
(* summarize_headlines: gemini_client.py 134-254.  A summary is a sequence *)
(* of pieces of text.  The answer of the model is [exc, text]: the         *)
(* exception raised by the call, or response.text.                         *)

\* s.count(term) from position i on: occurrences that do not overlap
RECURSIVE CountFrom(_, _, _)
CountFrom(s, term, i) ==
  IF i + Len(term) - 1 > Len(s) THEN 0
  ELSE IF MatchAt(s, term, i) THEN 1 + CountFrom(s, term, i + Len(term))
  ELSE CountFrom(s, term, i + 1)

\* lines 194-202
key_terms ==
  <<
     [theme |-> "gain",
      terms |-> << <<"g", "a", "i", "n">>,
                <<"r", "i", "s", "e">>,
                <<"u", "p">>,
                <<"h", "i", "g", "h", "e", "r">>,
                <<"s", "u", "r", "g", "e">>,
                <<"r", "a", "l", "l", "y">>,
                <<"c", "l", "i", "m", "b">> >>],
     [theme |-> "loss",
      terms |-> << <<"f", "a", "l", "l">>,
                <<"d", "r", "o", "p">>,
                <<"d", "o", "w", "n">>,
                <<"l", "o", "w", "e", "r">>,
                <<"d", "e", "c", "l", "i", "n", "e">>,
                <<"t", "u", "m", "b", "l", "e">>,
                <<"s", "l", "i", "d", "e">> >>],
     [theme |-> "tech",
      terms |-> << <<"t", "e", "c", "h">>,
                <<"t", "e", "c", "h", "n", "o", "l", "o", "g", "y">>,
                <<"a", "i">>,
                <<"s", "e", "m", "i", "c", "o", "n", "d", "u", "c",
                  "t", "o", "r">>,
                <<"c", "h", "i", "p">> >>],
     [theme |-> "finance",
      terms |-> << <<"b", "a", "n", "k">>,
                <<"f", "i", "n", "a", "n", "c", "i", "a", "l">>,
                <<"f", "i", "n", "a", "n", "c", "e">>,
                <<"c", "r", "e", "d", "i", "t">> >>],
     [theme |-> "energy",
      terms |-> << <<"o", "i", "l">>,
                <<"e", "n", "e", "r", "g", "y">>,
                <<"g", "a", "s">>,
                <<"p", "e", "t", "r", "o", "c", "h", "e", "m", "i",
                  "c", "a", "l">> >>],
     [theme |-> "china",
      terms |-> << <<"c", "h", "i", "n", "a">>,
                <<"c", "h", "i", "n", "e", "s", "e">>,
                <<"m", "a", "i", "n", "l", "a", "n", "d">>,
                <<"b", "e", "i", "j", "i", "n", "g">> >>],
     [theme |-> "us",
      terms |-> << <<"u", "s">>,
                <<"a", "m", "e", "r", "i", "c", "a">>,
                <<"a", "m", "e", "r", "i", "c", "a", "n">>,
                <<"f", "e", "d">>,
                <<"f", "e", "d", "e", "r", "a", "l">> >>]
  >>

\* " ".join([h["headline"].lower() for h in headlines])
RECURSIVE LoweredHeadlines(_)
LoweredHeadlines(headlines) ==
  IF headlines = <<>> THEN <<>>
  ELSE IF Len(headlines) = 1 THEN Lower(Head(headlines).headline)
  ELSE Lower(Head(headlines).headline) \o <<" ">>
         \o LoweredHeadlines(Tail(headlines))

\* sum(all_text.count(term) for term in terms)
RECURSIVE SumCounts(_, _, _)
SumCounts(all_text, terms, i) ==
  IF i > Len(terms) THEN 0
  ELSE CountFrom(all_text, terms[i], 1) + SumCounts(all_text, terms, i + 1)

\* lines 206-208: a theme is kept when its count is positive
ThemeItem(theme, count) ==
  IF count > 0 THEN <<[theme |-> theme, count |-> count]>> ELSE <<>>

\* theme_counts, in the order of key_terms
RECURSIVE ThemeCounts(_, _)
ThemeCounts(all_text, i) ==
  IF i > Len(key_terms) THEN <<>>
  ELSE ThemeItem(key_terms[i].theme, SumCounts(all_text, key_terms[i].terms, 1))
         \o ThemeCounts(all_text, i + 1)

\* the first item with the greatest count (the sort is stable)
FirstGreatest(items) ==
  CHOOSE b \in 1..Len(items) :
    /\ \A j \in 1..Len(items) : items[j].count <= items[b].count
    /\ \A j \in 1..(b - 1) : items[j].count < items[b].count

RemoveAt(items, b) ==
  SubSeq(items, 1, b - 1) \o SubSeq(items, b + 1, Len(items))

\* sorted(items, key=count, reverse=True)[:n], as the themes
RECURSIVE TopThemes(_, _)
TopThemes(items, n) ==
  IF n = 0 \/ items = <<>> THEN <<>>
  ELSE <<items[FirstGreatest(items)].theme>>
         \o TopThemes(RemoveAt(items, FirstGreatest(items)), n - 1)

InSeq(x, seq) == \E i \in 1..Len(seq) : seq[i] = x

\* [theme for theme in top if theme in group]
Among(top, group) == SelectSeq(top, LAMBDA theme : theme \in group)

\* sep.join(pieces)
RECURSIVE JoinWith(_, _)
JoinWith(pieces, sep) ==
  IF pieces = <<>> THEN ""
  ELSE IF Len(pieces) = 1 THEN Head(pieces)
  ELSE Head(pieces) \o sep \o JoinWith(Tail(pieces), sep)

\* r.upper() if r == 'us' else r.title()
RegionName(r) == IF r = "us" THEN "US" ELSE "China"

RegionNames(regions) == [i \in 1..Len(regions) |-> RegionName(regions[i])]

\* lines 214-222
SentimentParts(top) ==
  IF InSeq("gain", top) /\ InSeq("loss", top)
  THEN <<"Mixed market sentiment with both gains and losses reported">>
  ELSE IF InSeq("gain", top)
       THEN <<"Generally positive market sentiment with reported gains">>
  ELSE IF InSeq("loss", top)
       THEN <<"Market showing decline with reported losses">>
  ELSE <<>>

\* lines 224-229
SectorParts(top) ==
  IF Among(top, {"tech", "finance", "energy"}) # <<>>
  THEN <<"Key activity in "
           \o JoinWith(Among(top, {"tech", "finance", "energy"}), ", ")
           \o " sectors">>
  ELSE <<>>

\* lines 231-236
RegionParts(top) ==
  IF Among(top, {"china", "us"}) # <<>>
  THEN <<"International focus on "
           \o JoinWith(RegionNames(Among(top, {"china", "us"})), ", ")>>
  ELSE <<>>

summary_parts(top) == SentimentParts(top) \o SectorParts(top) \o RegionParts(top)

\* lines 238-244
ThemeSummary(parts, n) ==
  IF parts # <<>>
  THEN <<JoinWith(parts, ". ") \o ". Summary based on " \o ToString(n)
           \o " recent headlines.">>
  ELSE <<"Market update covering " \o ToString(n)
           \o " recent developments across Hong Kong financial markets.">>

\* lines 205-244 on theme_counts
SummaryOfThemes(theme_counts, n) ==
  IF theme_counts = <<>>
  THEN <<"Market news update covering " \o ToString(n)
           \o " recent developments in Hong Kong financial markets.">>
  ELSE ThemeSummary(summary_parts(TopThemes(theme_counts, 3)), n)

_generate_fallback_summary(headlines) ==
  IF headlines = <<>> THEN <<"No headlines available.">>
  ELSE SummaryOfThemes(ThemeCounts(LoweredHeadlines(headlines), 1),
                       Len(headlines))

\* the model raised
GenerationFailed == [exc |-> "Exception", text |-> <<>>]

\* the model answered with response.text = text
Generated(text) == [exc |-> "", text |-> text]

\* mutant: an empty answer is returned as the summary
summarize_headlines_mut(headlines, answer) ==
  IF headlines = <<>>
  THEN <<"No headlines available for summarization.">>
  ELSE IF answer.exc = "" THEN Strip(answer.text)
  ELSE _generate_fallback_summary(headlines)

summarize_headlines(headlines, answer) ==
  IF headlines = <<>>
  THEN <<"No headlines available for summarization.">>
  ELSE IF answer.exc = "" /\ answer.text # <<>> /\ Strip(answer.text) # <<>>
       THEN Strip(answer.text)
  ELSE _generate_fallback_summary(headlines)

-----------------------------------------------------------------------------
(* lookup_stock_symbol: gemini_client.py 256-366.  What a model does when  *)
(* it is asked is an answer [exc, text]: the model could not be obtained   *)
(* (generate_content is then not reached), generate_content raised, or it  *)
(* returned a response with the text.                                      *)

ModelUnavailable == [exc |-> "ModelUnavailable", text |-> <<>>]

\* lines 287-301: the f-string around the two places of the company name
_create_lookup_prompt(company_name) ==
  <<"Find the Hong Kong Stock Exchange (HKEX) symbol and official company name for ",
    company_name,
    "Respond in this exact format; if not found, respond NOT_FOUND. Company: ",
    company_name,
    "Response:">>

\* lines 322-340 and 345-366: an exception is logged and gives None, an
\* empty text gives None, any other text is stripped and interpreted
LookupOfAnswer(answer) ==
  IF answer.exc # "" THEN NotFound
  ELSE IF answer.text = <<>> THEN NotFound
  ELSE _extract_symbol_and_company_from_response(Strip(answer.text))

_try_grounded_lookup(answer) == LookupOfAnswer(answer)

_try_fallback_lookup(answer) == LookupOfAnswer(answer)

\* mutant: the grounded result is returned whatever it is
NeedsFallback_mut(result) == FALSE

\* lines 277-282: if result: return result, else the fallback
NeedsFallback(result) == ~result.found

\* the outcome of an operation that returns v
Returned(v) == [exc |-> "", val |-> v]

\* lines 176-189: the numbered headlines inside the f-string
_create_summarization_prompt(headlines) ==
  <<"Analyze the following Hong Kong stock market news headlines and provide a brief paragraph summary. Headlines:",
    [i \in 1..Len(headlines) |-> <<ToString(i) \o ". ", headlines[i].headline>>],
    "Summary:">>

\* an entry of the log of AI calls
Asked(model, prompt, answer) ==
  [model |-> model, prompt |-> prompt, answer |-> answer]

-----------------------------------------------------------------------------
(* The tool layer: main.py 41-224.  The arguments of a tool call are a     *)
(* decoded JSON value [kind, empty, limit]: None, a dict, whose "limit" is *)
(* missing, an int, a string or null, or a list.  An outcome of the layer  *)
(* is [exc, msg, val]: msg is str(e).  The message of an exception raised  *)
(* by a collaborator is opaque: it is written as the name of the           *)
(* exception.  A response is the list of one TextContent; its text is kept *)
(* as the object that json.dumps writes.                                   *)

SrvOk(v) == [exc |-> "", msg |-> "", val |-> v]

SrvRaise(exc, msg) == [exc |-> exc, msg |-> msg, val |-> <<>>]

\* the outcome of a collaborator, as the tool layer sees it
Collaborator(o) == IF o.exc = "" THEN SrvOk(o.val) ELSE SrvRaise(o.exc, o.exc)

TextContent(obj) == <<[type |-> "text", text |-> obj]>>

SuccessResponse(data, message) ==
  TextContent([success |-> TRUE, data |-> data, message |-> message])

ErrorResponse(error, message) ==
  TextContent([success |-> FALSE, error |-> error, message |-> message])

\* except Exception of a handler: lines 151-161 and 214-224
HandleExcept(o, message) ==
  IF o.exc = "" THEN o ELSE SrvOk(ErrorResponse(o.msg, message))

\* mutant: _execute_tool_logic has no except clause
ExecuteExcept_mut(o, name) == o

\* except Exception of _execute_tool_logic: lines 121-132
ExecuteExcept(o, name) ==
  IF o.exc = "" THEN o
  ELSE SrvOk(ErrorResponse(o.msg, "Failed to execute tool " \o name))

JInt(n) == [kind |-> "int", n |-> n]

JOther(kind) == [kind |-> kind, n |-> 0]

\* the arguments None
NoArguments == [kind |-> "none", empty |-> TRUE, limit |-> JOther("absent")]

\* (arguments or {}).get("limit", 10)
LimitOf(arguments) ==
  IF arguments.kind = "list" /\ ~arguments.empty
  THEN SrvRaise("AttributeError", "'list' object has no attribute 'get'")
  ELSE IF arguments.kind = "dict" /\ arguments.limit.kind # "absent"
       THEN SrvOk(arguments.limit)
  ELSE SrvOk(JInt(10))

Min(a, b) == IF a <= b THEN a ELSE b

Max(a, b) == IF a >= b THEN a ELSE b

\* limit = max(1, min(limit, 20))
ClampLimit(limit) ==
  IF limit.kind = "int" THEN SrvOk(Max(1, Min(limit.n, 20)))
  ELSE SrvRaise("TypeError", "'<' not supported between instances")

\* HSIServer.gemini_client before the first construction (None); an
\* instance of GeminiClient is a positive number
NoClient == 0

\* mutant: a client is constructed on every request
_get_gemini_client_mut(client, fresh, constructs) ==
  IF constructs THEN [exc |-> "", client |-> fresh, called |-> TRUE]
  ELSE [exc |-> "RuntimeError", client |-> client, called |-> TRUE]

\* lines 84-92: client is self.gemini_client, fresh the instance that
\* GeminiClient() returns when it constructs; called tells whether the
\* constructor was called
_get_gemini_client(client, fresh, constructs) ==
  IF client # NoClient THEN [exc |-> "", client |-> client, called |-> FALSE]
  ELSE IF constructs THEN [exc |-> "", client |-> fresh, called |-> TRUE]
  ELSE [exc |-> "RuntimeError", client |-> NoClient, called |-> TRUE]

\* lines 139-150 on the outcome of scraper.get_hsi_data
HsiDataResponse(hsi) ==
  IF hsi.exc = ""
  THEN SrvOk(SuccessResponse(hsi.val, "HSI data retrieved successfully"))
  ELSE hsi

\* _handle_get_hsi_data under _execute_tool_logic
HandleGetHsiData(hsi) ==
  ExecuteExcept(HandleExcept(HsiDataResponse(hsi), "Failed to retrieve HSI data"),
                "get_hsi_data")

\* lines 174-188
NoHeadlinesResponse ==
  SuccessResponse([headlines |-> <<>>,
                   summary |-> <<"No headlines available at this time.">>,
                   count |-> 0],
                  "No headlines found")

\* line 197
UnableSummary(n) ==
  <<"Unable to generate AI summary. Found " \o ToString(n)
      \o " headlines related to Hong Kong financial markets.">>

\* lines 199-213: hsi is the outcome of self.scraper.get_hsi_data()
SummaryResponse(headlines, summary, hsi) ==
  IF hsi.exc = ""
  THEN SrvOk(SuccessResponse(
               [headlines |-> headlines, summary |-> summary,
                count |-> Len(headlines), timestamp |-> hsi.val.timestamp],
               "Retrieved " \o ToString(Len(headlines))
                 \o " headlines with AI summary"))
  ELSE hsi

\* the except clauses around a step of _handle_get_hsi_news_summary
HandleNews(o) ==
  ExecuteExcept(
    HandleExcept(o, "Failed to retrieve news headlines and summary"),
    "get_hsi_news_summary")

\* _execute_tool_logic up to the first await: the next step of the call,
\* the clamped limit and, when the call is over, its outcome
Started(next, limit, out) == [next |-> next, limit |-> limit, out |-> out]

StartNews(limit) ==
  IF limit.exc # ""
  THEN Started("done", 0, ExecuteExcept(limit, "get_hsi_news_summary"))
  ELSE IF ClampLimit(limit.val).exc # ""
       THEN Started("done", 0, HandleNews(ClampLimit(limit.val)))
  ELSE Started("headlines", ClampLimit(limit.val).val, SrvOk(<<>>))

_execute_tool_logic(name, arguments) ==
  IF name = "get_hsi_data" THEN Started("hsi", 0, SrvOk(<<>>))
  ELSE IF name = "get_hsi_news_summary" THEN StartNews(LimitOf(arguments))
  ELSE Started("done", 0,
               ExecuteExcept(SrvRaise("ValueError", "Unknown tool: " \o name),
                             name))

-----------------------------------------------------------------------------
(* Bounded inputs.  A text input is a concatenation of a few tokens.       *)

MaxSymToks == 3

SymTokens ==
  { <<"5">>, <<"1", "2", "9", "9">>, <<"1", "2", "3", "4", "5", "6">>,
    <<".", "H", "K">>, <<".", "h", "k", "g">>, <<"x">>, <<" ">> }

SymbolInputs == TokenTexts(SymTokens, MaxSymToks)

MaxNumToks == 3

NumTokens ==
  { <<"(">>, <<")">>, <<"1", "2", "3", ".", "4", "5">>, <<"1">>, <<",">>,
    <<"2", "3", "4", ".", "5", "6">>,
    <<"i", "n", "v", "a", "l", "i", "d">>, <<"i", "n", "f">>,
    <<"n", "a", "n">>, <<"i", "n", "i", "t", "y">>, <<"9">>, <<"e">>,
    <<"9", "9", "9">>, <<"-">>, <<" ">>, <<".">> }

NumberInputs == TokenTexts(NumTokens, MaxNumToks)

MaxChgToks == 3

ChgTokens ==
  { <<"-">>, <<"+">>, <<"1", "4", ".", "7", "6">>,
    <<" ", "(", "0", ".", "0", "6", "%", ")">>,
    <<"(", "-", "0", ".", "0", "6", "%", ")">>,
    <<".">>, <<ArrowDown>>, <<"x">> }

ChangeTexts == TokenTexts(ChgTokens, MaxChgToks)

MaxAnchors == 3

MaxLimit == 2

TextStocks ==
  <<"H", "K", " ", "s", "t", "o", "c", "k", "s", " ", "c", "l", "o",
    "s", "e", " ", "h", "i", "g", "h", "e", "r">>

TextStocksSpaced ==
  <<" ", "H", "K", " ", "s", "t", "o", "c", "k", "s", " ", " ", "c",
    "l", "o", "s", "e", " ", "h", "i", "g", "h", "e", "r">>

TextShort ==
  <<"S", "h", "o", "r", "t", " ", "t", "e", "x", "t">>

TextWeather ==
  <<"W", "e", "a", "t", "h", "e", "r", " ", "i", "s", " ", "s", "u",
    "n", "n", "y", " ", "a", "l", "l", " ", "w", "e", "e", "k", " ",
    "l", "o", "n", "g">>

HrefNews == <<"/", "n", "e", "w", "s", "/", "1">>

HrefOther == <<"/", "e", "n", "/", "q", "u", "o", "t", "e">>

\* a text of exactly MIN_HEADLINE_LENGTH characters with a market keyword
TextTwenty ==
  <<"H", "K", " ", "s", "t", "o", "c", "k", "s", " ", "c", "l", "o",
    "s", "e", " ", "h", "i", "g", "h">>

\* a text of MAX_HEADLINE_LENGTH + 1 characters with a market keyword
TextLong == TextStocks \o [i \in 1..179 |-> "x"]

AnchorTexts == {TextStocks, TextStocksSpaced, TextShort, TextWeather}

\* a news link outside any container, or another link in or out of one;
\* then a link without href, a news link in a container whose text has
\* the minimum length, and a link whose text is longer than the maximum
Anchors ==
  { [text |-> t, href |-> HrefNews, box |-> FALSE] : t \in AnchorTexts }
  \cup
  { [text |-> t, href |-> HrefOther, box |-> b] :
      t \in AnchorTexts, b \in BOOLEAN }
  \cup
  { [text |-> TextStocks, href |-> <<>>, box |-> TRUE],
    [text |-> TextTwenty, href |-> HrefNews, box |-> TRUE],
    [text |-> TextLong, href |-> HrefOther, box |-> FALSE] }

Documents == UNION { [1..n -> Anchors] : n \in 0..MaxAnchors }

Limits == 0..MaxLimit

MaxHtmlToks == 4

HtmlTokens ==
  { <<"<", "s", "p", "a", "n", " ", "c", "l", "a", "s", "s", "=", "'",
      "p", "o", "s", "'", ">">>,
    <<"<", "s", "p", "a", "n", " ", "c", "l", "a", "s", "s", "=", "'",
      "n", "e", "g", "'", ">">>,
    <<"<", "s", "p", "a", "n", " ", "c", "l", "a", "s", "s", "=", "\"",
      "n", "e", "g", "\"", ">">>,
    <<"<", "/", "s", "p", "a", "n", ">">>,
    <<"+">>, <<"-">>,
    <<"0", ".", "4", "5", "(", "0", ".", "8", "5", "%", ")">>,
    <<"0", ".", "4", "5", "(", "-", "0", ".", "8", "5", "%", ")">>,
    <<" ">> }

HtmlInputs == TokenTexts(HtmlTokens, MaxHtmlToks)

MaxTurnToks == 3

TurnoverTokens ==
  { <<"1", ".", "2", "3">>, <<".", "5">>, <<",">>, <<"B">>, <<"M">>, <<"x">>, <<" ">> }

TurnoverInputs == TokenTexts(TurnoverTokens, MaxTurnToks)

\* the fragment of a falling and of a rising price
NegFragment ==
  <<"<", "s", "p", "a", "n", " ", "c", "l", "a", "s", "s", "=", "'",
    "n", "e", "g", "'", ">", "-", "0", ".", "4", "5", "(", "0", ".",
    "8", "5", "%", ")", "<", "/", "s", "p", "a", "n", ">">>

PosFragment ==
  <<"<", "s", "p", "a", "n", " ", "c", "l", "a", "s", "s", "=", "'",
    "p", "o", "s", "'", ">", "+", "0", ".", "4", "0", "0", "(", "0",
    ".", "4", "2", "6", "%", ")", "<", "/", "s", "p", "a", "n", ">">>

PriceValues ==
  { JAbsent, JNull, JNum(TRUE), JStr(<<>>), JStr(<<"5", "2", ".", "7", "5">>),
    JStr(<<"N", "/", "A">>) }

\* a fragment without class and leading sign, with a sign in the parentheses
BareFragment ==
  <<"0", ".", "4", "5", "(", "-", "0", ".", "8", "5", "%", ")">>

ChangeValues ==
  { JAbsent, JNum(TRUE), JStr(NegFragment), JStr(PosFragment),
    JStr(BareFragment), JStr(<<"n", "/", "a">>) }

TurnoverValues ==
  { JAbsent, JNum(TRUE), JStr(<<"1", ".", "2", "3", "B">>), JStr(<<"5", "1", "4", ".", "0", "6", "M">>),
    JStr(<<"1", ",", "2", "3", "4">>), JStr(<<"n", "/", "a">>) }

TimeValues == { JAbsent, JNull, JNum(TRUE), JStr(<<"1", "5", ":", "3", "0">>) }

QuoteObjects ==
  { JObj(a, b, d, e) :
      a \in PriceValues, b \in ChangeValues,
      d \in TurnoverValues, e \in TimeValues }

\* what may stand at element zero of the array
QuoteElements == QuoteObjects \cup { JNull, JNum(TRUE), JStr(<<"x">>) }

MaxRest == 1

\* what follows element zero
RestElements == { JNum(TRUE), JObj(JStr(<<"1">>), JAbsent, JAbsent, JAbsent) }

QuoteLists ==
  { JList(<<>>) } \cup
  { JList(<<first>> \o rest) :
      first \in QuoteElements,
      rest \in UNION { [1..n -> RestElements] : n \in 0..MaxRest } }

QuoteData ==
  QuoteLists \cup
  { JNull, JNum(FALSE), JNum(TRUE), JStr(<<>>), JStr(<<"x">>),
    JObj(JAbsent, JAbsent, JAbsent, JAbsent),
    JObj(JStr(<<"5", "2", ".", "7", "5">>), JAbsent, JAbsent, JAbsent) }

QuoteResponses ==
  { [kind |-> "http_error"], [kind |-> "invalid_json"] }
  \cup { [kind |-> "json", data |-> d] : d \in QuoteData }

QuoteSymbols ==
  { <<"5">>, <<"7", "0", "0", ".", "H", "K">>, <<>>, <<"1", "2", "3", "4", "5", "6">> }

CompanyNames == { None, "HSBC Holdings plc" }

Timestamps == { "2024-01-02T15:30:00" }

MaxRespToks == 4

ResponseTokens ==
  { <<"S", "y", "m", "b", "o", "l", ":", " ", "5">>,
    <<"0", "0", "0", "0", "5">>,
    <<",", " ", "C", "o", "m", "p", "a", "n", "y", ":", " ">>,
    <<"H", "S", "B", "C", " ", "L", "t", "d">>,
    <<"N", "o", "t", "_", "F", "o", "u", "n", "d">>,
    <<"N", "O", "T", "_", "F", "O", "U", "N", "D">>,
    <<".", "H", "K">>, <<" ", "x">>, <<"A", "B", " ">> }

MaxDigitToks == 4

\* answers without the structured form
DigitTokens ==
  { <<"r", "a", "n", "d", "o", "m", " ", "t", "e", "x", "t">>,
    <<" ", "7", "0", "0">>, <<"0", "0", "0", "0", "5">>,
    <<".", "H", "K">>, <<" ">>, <<"9">> }

ResponseTexts ==
  TokenTexts(ResponseTokens, MaxRespToks)
    \cup TokenTexts(DigitTokens, MaxDigitToks)

\* the change element: absent, or with a class, an optional inner span
\* holding a glyph, and the text that follows
ChangeMarkups ==
  { [present |-> FALSE, cls |-> "none", inner |-> FALSE, arrow |-> <<>>,
     rest |-> <<>>] }
  \cup
  { [present |-> TRUE, cls |-> c, inner |-> (a # <<"no span">>),
     arrow |-> (IF a = <<"no span">> THEN <<>> ELSE a), rest |-> r] :
      c \in {"pos", "neg", "none"},
      a \in {<<"no span">>, <<ArrowUp>>, <<ArrowDown>>},
      r \in ChangeTexts }

\* index pages of scraper_index.py
PointElements ==
  { NoElement,
    Element(<<"2", "5", ",", "1", "2", "3", ".", "4", "5">>),
    Element(<<" ", "1", "8", ",", "0", "0", "0", " ">>),
    Element(<<"N", "/", "A">>) }

MaxVolToks == 2

VolumeTokens ==
  { <<"1", "2", "3", ".", "4", "5">>, <<"B">>, <<" ", "m">>, <<"0">>, <<"x">> }

TurnoverElements ==
  {NoElement} \cup {Element(t) : t \in TokenTexts(VolumeTokens, MaxVolToks)}

IndexChangeTexts ==
  { <<"1", "4", ".", "7", "6", " ", "(", "0", ".", "0", "6", "%", ")">>,
    <<"x">> }

IndexChangeMarkups ==
  { [present |-> FALSE, cls |-> "none", inner |-> FALSE, arrow |-> <<>>,
     rest |-> <<>>] }
  \cup
  { [present |-> TRUE, cls |-> "none", inner |-> (a # <<"no span">>),
     arrow |-> (IF a = <<"no span">> THEN <<>> ELSE a), rest |-> r] :
      a \in {<<"no span">>, <<ArrowUp>>, <<ArrowDown>>},
      r \in IndexChangeTexts }

\* the extractions in which a call on the page raises
FaultSets ==
  { {}, {"point"}, {"turnover"}, {"change"}, {"point", "turnover", "change"} }

FewTurnoverElements ==
  { NoElement,
    Element(<<"1", "2", "3", ".", "4", "5", "B">>),
    Element(<<"n", "/", "a">>) }

IndexPages ==
  { [point |-> p, turnover |-> t, change |-> c, faults |-> f] :
      p \in PointElements, t \in FewTurnoverElements,
      c \in IndexChangeMarkups, f \in FaultSets }
  \cup
  { [point |-> p, turnover |-> t, change |-> c, faults |-> f] :
      p \in {NoElement}, t \in TurnoverElements,
      c \in IndexChangeMarkups, f \in {{}, {"turnover"}} }

\* index pages of scraper.py
MaxCells == 4

LegacyCellTexts ==
  { <<"H", "S", "I">>,
    <<"2", "5", ",", "1", "2", "3", ".", "4", "5">>,
    <<"+", "1", "4", ".", "7", "6">>,
    <<"(", "0", ".", "0", "6", "%", ")">>,
    <<"n", "/", "a">> }

LegacyRowSet == UNION { [1..k -> LegacyCellTexts] : k \in 3..MaxCells }

SecondRow ==
  << <<"H", "a", "n", "g", " ", "S", "e", "n", "g">>,
     <<"1", "8", ",", "0", "0", "0">>,
     <<"-", "1", ".", "5">>,
     <<"2", "%">> >>

LegacyTables ==
  { <<>> }
  \cup { <<row>> : row \in LegacyRowSet }
  \cup { <<row, SecondRow>> : row \in [1..4 -> { <<"H", "S", "I">>, <<"n", "/", "a">> }] }

LegacyClassedSets ==
  { <<>>,
    << <<"L", "a", "s", "t", " ", "1", "8", ",", "0", "0", "0">> >>,
    << <<"x">>,
       <<"2", "5", ",", "1", "2", "3", ".", "4", "5">> >> }

LegacyLabelSets ==
  { <<>>,
    << << <<"n", "/", "a">>,
          <<"1", "2", "3", ".", "4", "5", "B">> >> >>,
    << << <<"0", " ", "B">> >>,
       << <<"a">>, <<"b">>, <<"c">>,
          <<"9", "8", ".", "7", " ", "M">> >> >> }

FewTables == { <<>>, <<SecondRow>> }

LegacyPages ==
  { [rows |-> rows, classed |-> <<>>, labels |-> <<>>] :
      rows \in LegacyTables }
  \cup
  { [rows |-> rows, classed |-> classed, labels |-> labels] :
      rows \in FewTables, classed \in LegacyClassedSets,
      labels \in LegacyLabelSets }

\* tool calls
ToolNames == {"get_hsi_data", "get_hsi_news_summary", "get_stock_quote"}

ArgumentValues ==
  { NoArguments,
    [kind |-> "dict", empty |-> FALSE, limit |-> JInt(1)],
    [kind |-> "dict", empty |-> FALSE, limit |-> JInt(25)],
    [kind |-> "dict", empty |-> FALSE, limit |-> JOther("str")],
    [kind |-> "list", empty |-> FALSE, limit |-> JOther("absent")] }

\* the news pages the server meets: no, one and two headlines
ServerDocuments ==
  { <<>>,
    <<[text |-> TextStocks, href |-> HrefNews, box |-> FALSE]>>,
    <<[text |-> TextStocks, href |-> HrefNews, box |-> FALSE],
      [text |-> TextWeather, href |-> HrefNews, box |-> FALSE]>> }

\* what self.scraper.get_news_headlines(limit) does, for each limit that
\* the handler can pass
NewsOutcomes ==
  [limit \in 1..20 |->
     { [exc |-> "", val |-> legacy_get_news_headlines(doc, limit)] :
         doc \in ServerDocuments }
     \cup {FetchFailed}]

ServerPages ==
  { [rows |-> <<SecondRow>>, classed |-> <<>>, labels |-> <<>>] }

\* what self.scraper.get_hsi_data() does
HsiOutcomes ==
  { legacy_get_hsi_data(page, now) : page \in ServerPages, now \in Timestamps }
  \cup {FetchFailed}

\* what the summarization model does
Answers ==
  { GenerationFailed,
    Generated(<<>>),
    Generated(<<" ", " ">>),
    Generated(<<" ", "M", "a", "r", "k", "e", "t", "s", " ", "r", "o", "s", "e",
      ".", " ">>) }

\* the company names that are looked up
LookupNames ==
  { <<>>, <<" ", "\t">>, <<"H", "S", "B", "C">>, <<" ", "A", "I", "A", " ">>,
    <<"T", "e", "n", "c", "e", "n", "t">> }

\* what a lookup model does
LookupAnswers ==
  { ModelUnavailable, GenerationFailed, Generated(<<>>), Generated(<<" ">>), 
    Generated(<<"N", "O", "T", "_", "F", "O", "U", "N", "D">>),
    Generated(<<"S", "y", "m", "b", "o", "l", ":", " ", "0", "0", "0", "0", "5",
      ",", " ", "C", "o", "m", "p", "a", "n", "y", ":", " ", "H", "S",
      "B", "C", " ", "H", "o", "l", "d", "i", "n", "g", "s", " ", "L",
      "i", "m", "i", "t", "e", "d">>),
    Generated(<<" ", "7", "0", "0", ".", "H", "K", " ">>) }

\* the lists of headlines that are summarized: none, one and two
HeadlineLists ==
  { news.val : news \in {o \in NewsOutcomes[2] : o.exc = ""} }

\* the lists of headlines that a news request can hold
ServerHeadlineLists ==
  UNION { { news.val : news \in {o \in NewsOutcomes[limit] : o.exc = ""} } :
            limit \in 1..20 }

\* what the summarization model does, the case that it cannot be obtained
\* included
SummaryAnswers == Answers \cup {ModelUnavailable}

\* what gemini_client.summarize_headlines(headlines) returns, for each list
\* that the handler can pass and each answer of the model
SummaryOutcomes ==
  [headlines \in ServerHeadlineLists |->
     [answer \in SummaryAnswers |-> summarize_headlines(headlines, answer)]]

MaxConstructions == 2

-----------------------------------------------------------------------------
(* The state machine: a caller invokes one operation on one input (pc goes *)
(* from "idle" to "done", op names the operation, arg its input, ret its   *)
(* outcome, fetchLog the URLs requested so far in the call), then returns. *)

NoValue == <<>>

\* the request slots of the server: two tool calls can be in progress
Requests == {"r1", "r2"}

\* the index page has not been asked for
NotScraped == [exc |-> "NotScraped", val |-> <<>>]

\* a slot with no tool call in progress.  scrape tells how the scrape of
\* the headlines ended; fetches and ai are the URLs the call has fetched
\* and the calls it has made to the AI collaborator, model how it got the
\* summarization model (from the cache, created, or not at all), answer
\* what that model did when it was asked, hsi what the scrape of the index
\* page gave; escaped is the exception that left _execute_tool_logic
NoCall ==
  [pc |-> "idle", name |-> "", arguments |-> NoArguments, limit |-> 0,
   scrape |-> "", headlines |-> <<>>, client |-> NoClient, model |-> "",
   answer |-> Generated(<<>>), hsi |-> NotScraped, summary |-> <<>>,
   fetches |-> <<>>, ai |-> <<>>, response |-> <<>>, escaped |-> ""]

Init ==
  /\ pc = "idle"
  /\ op = "none"
  /\ arg = NoValue
  /\ ret = NoValue
  /\ fetchLog = <<>>
  /\ genLog = <<>>
  /\ gemini_client = NoClient
  /\ _models = {}
  /\ constructions = <<>>
  /\ calls = [r \in Requests |-> NoCall]

FormatSymbol ==
  /\ pc = "idle"
  /\ \E s \in SymbolInputs :
       /\ arg' = s
       /\ ret' = _format_symbol(s)
  /\ op' = "_format_symbol"
  /\ pc' = "done"
  /\ UNCHANGED <<fetchLog, genLog, serverVars>>

ParseNumber ==
  /\ pc = "idle"
  /\ \E s \in NumberInputs :
       /\ arg' = s
       /\ ret' = _parse_number(s)
  /\ op' = "_parse_number"
  /\ pc' = "done"
  /\ UNCHANGED <<fetchLog, genLog, serverVars>>

ParseChangeString ==
  /\ pc = "idle"
  /\ \E s \in ChangeTexts :
       /\ arg' = s
       /\ ret' = _parse_change_string(s)
  /\ op' = "_parse_change_string"
  /\ pc' = "done"
  /\ UNCHANGED <<fetchLog, genLog, serverVars>>

ExtractChangeData ==
  /\ pc = "idle"
  /\ \E markup \in ChangeMarkups :
       /\ arg' = markup
       /\ ret' = _extract_change_data(markup)
  /\ op' = "_extract_change_data"
  /\ pc' = "done"
  /\ UNCHANGED <<fetchLog, genLog, serverVars>>

\* scraper_index.py get_news_headlines: one fetch, then the extraction
GetNewsHeadlines ==
  /\ pc = "idle"
  /\ \/ \E doc \in Documents, limit \in Limits :
          /\ arg' = [doc |-> doc, limit |-> limit, fetched |-> TRUE]
          /\ ret' = [exc |-> "", val |-> get_news_headlines(doc, limit)]
     \/ \E limit \in Limits :
          /\ arg' = [doc |-> <<>>, limit |-> limit, fetched |-> FALSE]
          /\ ret' = FetchFailed
  /\ fetchLog' = Append(fetchLog, NEWS_URL)
  /\ op' = "get_news_headlines"
  /\ pc' = "done"
  /\ UNCHANGED <<genLog, serverVars>>

\* scraper.py get_news_headlines: one fetch, then the extraction
LegacyGetNewsHeadlines ==
  /\ pc = "idle"
  /\ \/ \E doc \in Documents, limit \in Limits :
          /\ arg' = [doc |-> doc, limit |-> limit, fetched |-> TRUE]
          /\ ret' = [exc |-> "", val |-> legacy_get_news_headlines(doc, limit)]
     \/ \E limit \in Limits :
          /\ arg' = [doc |-> <<>>, limit |-> limit, fetched |-> FALSE]
          /\ ret' = FetchFailed
  /\ fetchLog' = Append(fetchLog, NEWS_URL)
  /\ op' = "legacy_get_news_headlines"
  /\ pc' = "done"
  /\ UNCHANGED <<genLog, serverVars>>

\* _parse_change_html on the text of field b
ParseChangeHtml ==
  /\ pc = "idle"
  /\ \E s \in HtmlInputs :
       /\ arg' = s
       /\ ret' = _parse_change_html(s)
  /\ op' = "_parse_change_html"
  /\ pc' = "done"
  /\ UNCHANGED <<fetchLog, genLog, serverVars>>

\* _parse_turnover on the text of field d
ParseTurnover ==
  /\ pc = "idle"
  /\ \E s \in TurnoverInputs :
       /\ arg' = s
       /\ ret' = _parse_turnover(s)
  /\ op' = "_parse_turnover"
  /\ pc' = "done"
  /\ UNCHANGED <<fetchLog, genLog, serverVars>>

\* get_stock_quote: the AJAX address is fetched once the symbol is formatted
\* mutant: the request is issued before the symbol is formatted
GetStockQuote_mut ==
  /\ pc = "idle"
  /\ \E symbol \in QuoteSymbols, company_name \in CompanyNames,
        response \in QuoteResponses, now \in Timestamps :
       /\ arg' = [symbol |-> symbol, company_name |-> company_name,
                  response |-> response]
       /\ ret' = get_stock_quote(symbol, company_name, response, now)
       /\ fetchLog' = Append(fetchLog, FormatUrl(AJAX_URL_TEMPLATE, symbol))
  /\ op' = "get_stock_quote"
  /\ pc' = "done"
  /\ UNCHANGED <<genLog, serverVars>>

GetStockQuote ==
  /\ pc = "idle"
  /\ \E symbol \in QuoteSymbols, company_name \in CompanyNames,
        response \in QuoteResponses, now \in Timestamps :
       /\ arg' = [symbol |-> symbol, company_name |-> company_name,
                  response |-> response]
       /\ ret' = get_stock_quote(symbol, company_name, response, now)
       /\ fetchLog' =
            IF _format_symbol(symbol).exc = ""
            THEN Append(fetchLog,
                        FormatUrl(AJAX_URL_TEMPLATE, _format_symbol(symbol).val))
            ELSE fetchLog
  /\ op' = "get_stock_quote"
  /\ pc' = "done"
  /\ UNCHANGED <<genLog, serverVars>>

\* the interpreter applied to the text of an answer
ExtractSymbolAndCompany ==
  /\ pc = "idle"
  /\ \E s \in ResponseTexts :
       /\ arg' = s
       /\ ret' = _extract_symbol_and_company_from_response(s)
  /\ op' = "_extract_symbol_and_company_from_response"
  /\ pc' = "done"
  /\ UNCHANGED <<fetchLog, genLog, serverVars>>

\* scraper_index.py get_hsi_data: one fetch, then the extraction
GetHsiData ==
  /\ pc = "idle"
  /\ \/ \E soup \in IndexPages, now \in Timestamps :
          /\ arg' = [soup |-> soup, fetched |-> TRUE]
          /\ ret' = get_hsi_data(soup, now)
     \/ /\ arg' = [soup |-> <<>>, fetched |-> FALSE]
        /\ ret' = FetchFailed
  /\ fetchLog' = Append(fetchLog, HSI_URL)
  /\ op' = "get_hsi_data"
  /\ pc' = "done"
  /\ UNCHANGED <<genLog, serverVars>>

\* scraper.py get_hsi_data: one fetch, then the extraction
LegacyGetHsiData ==
  /\ pc = "idle"
  /\ \/ \E page \in LegacyPages, now \in Timestamps :
          /\ arg' = [soup |-> page, fetched |-> TRUE]
          /\ ret' = legacy_get_hsi_data(page, now)
     \/ /\ arg' = [soup |-> <<>>, fetched |-> FALSE]
        /\ ret' = FetchFailed
  /\ fetchLog' = Append(fetchLog, HSI_URL)
  /\ op' = "legacy_get_hsi_data"
  /\ pc' = "done"
  /\ UNCHANGED <<genLog, serverVars>>

\* a tool call arrives: _execute_tool_logic runs up to its first await
CallTool(r) ==
  /\ calls[r].pc = "idle"
  /\ \E name \in ToolNames, arguments \in ArgumentValues :
       calls' =
         [calls EXCEPT ![r] =
            [NoCall EXCEPT
               !.pc = _execute_tool_logic(name, arguments).next,
               !.name = name,
               !.arguments = arguments,
               !.limit = _execute_tool_logic(name, arguments).limit,
               !.response = _execute_tool_logic(name, arguments).out.val,
               !.escaped = _execute_tool_logic(name, arguments).out.exc]]
  /\ UNCHANGED <<pc, op, arg, ret, fetchLog, genLog, gemini_client, _models,
                 constructions>>

\* the call is over with outcome out
Finished(call, out) ==
  [call EXCEPT !.pc = "done", !.response = out.val, !.escaped = out.exc]

\* _handle_get_hsi_data resumes after scraper.get_hsi_data
HsiDataDone(r) ==
  /\ calls[r].pc = "hsi"
  /\ \E hsi \in HsiOutcomes :
       calls' =
         [calls EXCEPT ![r] =
            Finished([calls[r] EXCEPT !.fetches = Append(@, HSI_URL),
                                      !.hsi = hsi],
                     HandleGetHsiData(Collaborator(hsi)))]
  /\ UNCHANGED <<pc, op, arg, ret, fetchLog, genLog, gemini_client, _models,
                 constructions>>

\* the scrape of the headlines raised
HeadlinesFailed(r) ==
  /\ calls' =
       [calls EXCEPT ![r] =
          Finished([calls[r] EXCEPT !.fetches = Append(@, NEWS_URL),
                                    !.scrape = "failed"],
                   HandleNews(Collaborator(FetchFailed)))]
  /\ UNCHANGED <<gemini_client, _models, constructions>>

\* mutant: the client is asked for before the headlines are tested
HeadlinesEmpty_mut(r) ==
  /\ \E news \in NewsOutcomes[calls[r].limit] :
       /\ news.exc = ""
       /\ news.val = <<>>
  /\ gemini_client = NoClient
  /\ Len(constructions) < MaxConstructions
  /\ calls' =
       [calls EXCEPT ![r] =
          Finished([calls[r] EXCEPT !.fetches = Append(@, NEWS_URL),
                                    !.scrape = "ok",
                                    !.client = Len(constructions) + 1,
                                    !.ai = Append(@, "GeminiClient")],
                   SrvOk(NoHeadlinesResponse))]
  /\ gemini_client' = Len(constructions) + 1
  /\ constructions' = Append(constructions, "ok")
  /\ UNCHANGED _models

\* lines 174-188: no headline was found
HeadlinesEmpty(r) ==
  /\ \E news \in NewsOutcomes[calls[r].limit] :
       /\ news.exc = ""
       /\ news.val = <<>>
  /\ calls' =
       [calls EXCEPT ![r] =
          Finished([calls[r] EXCEPT !.fetches = Append(@, NEWS_URL),
                                    !.scrape = "ok"],
                   SrvOk(NoHeadlinesResponse))]
  /\ UNCHANGED <<gemini_client, _models, constructions>>

\* the call with the client c that _get_gemini_client gave, the constructor
\* having been called or not
WithClient(call, headlines, c) ==
  [call EXCEPT !.fetches = Append(@, NEWS_URL),
               !.scrape = "ok",
               !.headlines = headlines,
               !.client = c.client,
               !.ai = IF c.called THEN Append(@, "GeminiClient") ELSE @]

\* lines 190-197 when _get_gemini_client raised, then lines 199-213
Degraded(call, hsi) ==
  Finished([call EXCEPT !.summary = UnableSummary(Len(call.headlines)),
                        !.fetches = Append(@, HSI_URL),
                        !.hsi = hsi],
           HandleNews(SummaryResponse(call.headlines,
                                      UnableSummary(Len(call.headlines)),
                                      Collaborator(hsi))))

\* lines 190-193: headlines were found and the client c is asked for
ClientAsked(r, headlines, c) ==
  /\ c.called => Len(constructions) < MaxConstructions
  /\ gemini_client' = IF c.called /\ c.exc = "" THEN c.client ELSE gemini_client
  /\ _models' = IF c.called /\ c.exc = "" THEN {} ELSE _models
  /\ constructions' =
       IF c.called
       THEN Append(constructions, IF c.exc = "" THEN "ok" ELSE "failed")
       ELSE constructions
  /\ IF c.exc = ""
     THEN calls' =
            [calls EXCEPT ![r] =
               [WithClient(calls[r], headlines, c) EXCEPT !.pc = "summarize"]]
     ELSE \E hsi \in HsiOutcomes :
            calls' =
              [calls EXCEPT ![r] =
                 Degraded(WithClient(calls[r], headlines, c), hsi)]

HeadlinesFound(r) ==
  \E news \in NewsOutcomes[calls[r].limit], constructs \in BOOLEAN :
    /\ news.exc = ""
    /\ news.val # <<>>
    /\ ClientAsked(r, news.val,
                   _get_gemini_client(gemini_client, Len(constructions) + 1,
                                      constructs))

\* _handle_get_hsi_news_summary resumes after scraper.get_news_headlines
\* and runs up to its next await or to its end
HeadlinesDone(r) ==
  /\ calls[r].pc = "headlines"
  /\ \/ HeadlinesFailed(r)
     \/ HeadlinesEmpty(r)
     \/ HeadlinesFound(r)
  /\ UNCHANGED <<pc, op, arg, ret, fetchLog, genLog>>

\* lines 199-213 with the summary of the AI client
Summarized(call, answer, summary, hsi) ==
  Finished([call EXCEPT !.answer = answer,
                        !.summary = summary,
                        !.fetches = Append(@, HSI_URL),
                        !.hsi = hsi],
           HandleNews(SummaryResponse(call.headlines, summary,
                                      Collaborator(hsi))))

\* summarize_headlines starts on a worker thread and runs up to the test of
\* the cache in _get_model: gemini_client.py 150-157 and 113-114
ModelAsked(r) ==
  /\ calls[r].pc = "summarize"
  /\ calls' =
       [calls EXCEPT ![r] =
          [@ EXCEPT !.ai = Append(@, "summarize_headlines"),
                    !.model = IF "summarization" \in _models
                              THEN "cached" ELSE @,
                    !.pc = IF "summarization" \in _models
                           THEN "generate" ELSE "create"]]
  /\ UNCHANGED <<pc, op, arg, ret, fetchLog, genLog, gemini_client, _models,
                 constructions>>

\* _get_model creates the model and caches it, or raises: gemini_client.py
\* 117-128; when it raises, summarize_headlines returns the local summary
\* and the handler runs to its end
ModelCreated(r) ==
  /\ calls[r].pc = "create"
  /\ \/ /\ _models' = _models \cup {"summarization"}
        /\ calls' =
             [calls EXCEPT ![r] = [@ EXCEPT !.model = "created",
                                            !.pc = "generate"]]
     \/ /\ _models' = _models
        /\ \E summary \in {SummaryOutcomes[calls[r].headlines][ModelUnavailable]} :
             \E hsi \in HsiOutcomes :
               calls' =
                 [calls EXCEPT ![r] =
                    Summarized([calls[r] EXCEPT !.model = "failed"],
                               ModelUnavailable, summary, hsi)]
  /\ UNCHANGED <<pc, op, arg, ret, fetchLog, genLog, gemini_client,
                 constructions>>

\* mutant: the headlines that are summarized are those of the other request
SummaryDone_mut(r) ==
  /\ calls[r].pc = "generate"
  /\ \E answer \in Answers, q \in Requests \ {r} :
       \E summary \in {SummaryOutcomes[calls[q].headlines][answer]} :
         \E hsi \in HsiOutcomes :
           calls' =
             [calls EXCEPT ![r] = Summarized(calls[r], answer, summary, hsi)]
  /\ UNCHANGED <<pc, op, arg, ret, fetchLog, genLog, gemini_client, _models,
                 constructions>>

\* generate_content answers, summarize_headlines returns and
\* _handle_get_hsi_news_summary resumes and runs to its end
SummaryDone(r) ==
  /\ calls[r].pc = "generate"
  /\ \E answer \in Answers :
       \E summary \in {SummaryOutcomes[calls[r].headlines][answer]} :
         \E hsi \in HsiOutcomes :
           calls' =
             [calls EXCEPT ![r] = Summarized(calls[r], answer, summary, hsi)]
  /\ UNCHANGED <<pc, op, arg, ret, fetchLog, genLog, gemini_client, _models,
                 constructions>>

\* the response is handed to the transport
Respond(r) ==
  /\ calls[r].pc = "done"
  /\ calls' = [calls EXCEPT ![r] = NoCall]
  /\ UNCHANGED <<pc, op, arg, ret, fetchLog, genLog, gemini_client, _models,
                 constructions>>

\* lookup_stock_symbol up to its first call of a model: lines 266-273
LookupStockSymbol ==
  /\ pc = "idle"
  /\ \E company_name \in LookupNames :
       IF Strip(company_name) = <<>>
       THEN /\ arg' = [company_name |-> company_name, prompt |-> <<>>]
            /\ ret' = Returned(NotFound)
            /\ pc' = "done"
       ELSE /\ arg' = [company_name |-> company_name,
                       prompt |-> _create_lookup_prompt(Strip(company_name))]
            /\ ret' = NoValue
            /\ pc' = "grounded"
  /\ op' = "lookup_stock_symbol"
  /\ UNCHANGED <<fetchLog, genLog, serverVars>>

\* _try_grounded_lookup, then lines 277-279
GroundedLookup ==
  /\ pc = "grounded"
  /\ \E answer \in LookupAnswers :
       /\ genLog' = Append(genLog, Asked("grounding", arg.prompt, answer))
       /\ IF NeedsFallback(_try_grounded_lookup(answer))
          THEN /\ pc' = "fallback"
               /\ ret' = ret
          ELSE /\ pc' = "done"
               /\ ret' = Returned(_try_grounded_lookup(answer))
  /\ UNCHANGED <<op, arg, fetchLog, serverVars>>

\* _try_fallback_lookup, whose result is returned: lines 281-282
FallbackLookup ==
  /\ pc = "fallback"
  /\ \E answer \in LookupAnswers :
       /\ genLog' = Append(genLog, Asked("default", arg.prompt, answer))
       /\ ret' = Returned(_try_fallback_lookup(answer))
  /\ pc' = "done"
  /\ UNCHANGED <<op, arg, fetchLog, serverVars>>

\* mutant: a failed generation is tried once more
SummarizeHeadlines_mut ==
  /\ pc = "idle"
  /\ \E headlines \in HeadlineLists, answer \in Answers \cup {ModelUnavailable} :
       /\ arg' = [headlines |-> headlines]
       /\ ret' = Returned(summarize_headlines(headlines, answer))
       /\ genLog' =
            IF headlines = <<>> THEN genLog
            ELSE IF answer.exc # ""
                 THEN genLog
                        \o <<Asked("summarization",
                                   _create_summarization_prompt(headlines), answer),
                             Asked("summarization",
                                   _create_summarization_prompt(headlines), answer)>>
            ELSE Append(genLog,
                        Asked("summarization",
                              _create_summarization_prompt(headlines), answer))
  /\ op' = "summarize_headlines"
  /\ pc' = "done"
  /\ UNCHANGED <<fetchLog, serverVars>>

\* summarize_headlines: the summarization model is asked once when there
\* are headlines
SummarizeHeadlines ==
  /\ pc = "idle"
  /\ \E headlines \in HeadlineLists, answer \in Answers \cup {ModelUnavailable} :
       /\ arg' = [headlines |-> headlines]
       /\ ret' = Returned(summarize_headlines(headlines, answer))
       /\ genLog' =
            IF headlines = <<>> THEN genLog
            ELSE Append(genLog,
                        Asked("summarization",
                              _create_summarization_prompt(headlines), answer))
  /\ op' = "summarize_headlines"
  /\ pc' = "done"
  /\ UNCHANGED <<fetchLog, serverVars>>

Return ==
  /\ pc = "done"
  /\ pc' = "idle"
  /\ op' = "none"
  /\ arg' = NoValue
  /\ ret' = NoValue
  /\ fetchLog' = <<>>
  /\ genLog' = <<>>
  /\ UNCHANGED serverVars

Next ==
  \/ FormatSymbol
  \/ ParseNumber
  \/ ParseChangeString
  \/ ExtractChangeData
  \/ Return

Spec == Init /\ [][Next]_vars

\* the two news scrapers
NextNews ==
  \/ GetNewsHeadlines
  \/ LegacyGetNewsHeadlines
  \/ Return

SpecNews == Init /\ [][NextNews]_vars

\* the stock quote scraper
NextQuote ==
  \/ ParseChangeHtml
  \/ ParseTurnover
  \/ GetStockQuote
  \/ Return

SpecQuote == Init /\ [][NextQuote]_vars

\* the interpreter of lookup answers
NextAI ==
  \/ ExtractSymbolAndCompany
  \/ Return

SpecAI == Init /\ [][NextAI]_vars

\* the two index scrapers
NextIndex ==
  \/ GetHsiData
  \/ LegacyGetHsiData
  \/ Return

SpecIndex == Init /\ [][NextIndex]_vars

\* the tool layer with its request slots
NextServer ==
  \E r \in Requests :
    \/ CallTool(r)
    \/ HsiDataDone(r)
    \/ HeadlinesDone(r)
    \/ ModelAsked(r)
    \/ ModelCreated(r)
    \/ SummaryDone(r)
    \/ Respond(r)

SpecServer == Init /\ [][NextServer]_vars

\* the symbol lookup: a call that has started goes on to its end
NextLookup ==
  \/ LookupStockSymbol
  \/ GroundedLookup
  \/ FallbackLookup
  \/ Return

SpecLookup ==
  /\ Init
  /\ [][NextLookup]_vars
  /\ WF_vars(GroundedLookup)
  /\ WF_vars(FallbackLookup)

\* the five operations that cross the I/O boundary
NextCore ==
  \/ GetHsiData
  \/ GetNewsHeadlines
  \/ GetStockQuote
  \/ LookupStockSymbol
  \/ GroundedLookup
  \/ FallbackLookup
  \/ SummarizeHeadlines
  \/ Return

SpecCore == Init /\ [][NextCore]_vars

-----------------------------------------------------------------------------
(* Properties.                                                             *)

\* the index of the first digit of s, 0 when s has none
FirstDigitAt(s) ==
  IF \E i \in 1..Len(s) : IsDigit(s[i])
  THEN CHOOSE i \in 1..Len(s) :
         IsDigit(s[i]) /\ \A j \in 1..(i - 1) : ~IsDigit(s[j])
  ELSE 0

\* the index of the last digit of the digit run that starts at i
DigitRunEnd(s, i) ==
  CHOOSE j \in i..Len(s) :
    /\ \A k \in i..j : IsDigit(s[k])
    /\ j = Len(s) \/ ~IsDigit(s[j + 1])

\* the first maximal run of digits of the raw text s
FirstRunOf(s) ==
  IF FirstDigitAt(s) = 0 THEN <<>>
  ELSE SubSeq(s, FirstDigitAt(s), DigitRunEnd(s, FirstDigitAt(s)))

\* C1: _format_symbol either raises ValueError or returns exactly 5 digits;
\* it raises exactly when the input is empty, has no digit, or its first
\* digit run is longer than 5; otherwise it returns that run zero-padded
\* on the left to width 5.
C1_FormatSymbol ==
  op = "_format_symbol" =>
    LET run == FirstRunOf(arg)
        fails == arg = <<>> \/ run = <<>> \/ Len(run) > 5
    IN /\ ret.exc \in {"", "ValueError"}
       /\ (ret.exc = "ValueError") <=> fails
       /\ ret.exc = "" =>
            /\ Len(ret.val) = 5
            /\ \A i \in 1..5 : IsDigit(ret.val[i])
            /\ SubSeq(ret.val, 6 - Len(run), 5) = run
            /\ \A i \in 1..(5 - Len(run)) : ret.val[i] = "0"

\* C1 on the inputs named by the specification
C1_Examples ==
  /\ _format_symbol(<<"5", ".", "H", "K">>) = SymOk(<<"0", "0", "0", "0", "5">>)
  /\ _format_symbol(<<"1", "2", "9", "9">>) = SymOk(<<"0", "1", "2", "9", "9">>)
  /\ _format_symbol(<<"1", "2", "3", "4", "5", "6">>).exc = "ValueError"
  /\ _format_symbol(<<>>).exc = "ValueError"

\* a symbol with an exchange suffix has been formatted with padding
C1_Witness ==
  /\ op = "_format_symbol"
  /\ arg = <<"5", ".", "H", "K">>
  /\ ret = SymOk(<<"0", "0", "0", "0", "5">>)

\* a symbol whose first digit run has 6 digits has been rejected
C1_WitnessTooLong ==
  /\ op = "_format_symbol"
  /\ Len(FirstRunOf(arg)) = 6
  /\ ret.exc = "ValueError"

-----------------------------------------------------------------------------

\* re.sub(",", "", s)
RECURSIVE WithoutCommas(_)
WithoutCommas(s) ==
  IF s = <<>> THEN <<>>
  ELSE IF Head(s) = "," THEN WithoutCommas(Tail(s))
  ELSE <<Head(s)>> \o WithoutCommas(Tail(s))

\* s is "(" inner ")" with inner an unsigned, unparenthesised text
Parenthesised(s) ==
  /\ Len(s) >= 3
  /\ s[1] = "("
  /\ s[Len(s)] = ")"
  /\ s[2] \notin {"+", "-", "(", ",", " "}

\* C2: _parse_number is total over strings: it never raises and returns a
\* float or None; thousands separators do not change the result; a value
\* wrapped in parentheses is the negation of the unwrapped value; text with
\* a letter that no float literal contains yields None.
C2_ParseNumberTotal ==
  op = "_parse_number" =>
    /\ ret.exc = ""
    /\ ret.val.k \in {"none", "fin", "inf", "nan"}
    /\ ret = _parse_number(WithoutCommas(arg))
    /\ Parenthesised(arg) =>
         ret.val = FNeg(_parse_number(SubSeq(arg, 2, Len(arg) - 1)).val)
    /\ (arg = <<>> \/ \E i \in 1..Len(arg) : arg[i] = "v") => ret.val = FNone

\* C2 on the inputs named by the specification
C2_Examples ==
  /\ _parse_number(<<"(", "1", "2", "3", ".", "4", "5", ")">>)
       = Ok([k |-> "fin", neg |-> TRUE, m |-> 12345, e |-> -2])
  /\ _parse_number(<<"1", ",", "2", "3", "4", ".", "5", "6">>)
       = Ok([k |-> "fin", neg |-> FALSE, m |-> 123456, e |-> -2])
  /\ _parse_number(<<"i", "n", "v", "a", "l", "i", "d">>) = Ok(FNone)
  /\ _parse_number(<<>>) = Ok(FNone)

\* a parenthesised value has been parsed as a negative number
C2_Witness ==
  /\ op = "_parse_number"
  /\ arg = <<"(", "1", "2", "3", ".", "4", "5", ")">>
  /\ ret = Ok([k |-> "fin", neg |-> TRUE, m |-> 12345, e |-> -2])

\* a malformed text has been mapped to None by the except clause
C2_WitnessMalformed ==
  /\ op = "_parse_number"
  /\ arg = <<"1", ",", "i", "n", "v", "a", "l", "i", "d">>
  /\ ret = Ok(FNone)

\* C3: every value _parse_number returns is a finite number or None.
C3_NumericFieldFinite ==
  op = "_parse_number" => ret.exc = "" /\ ret.val.k \in {"none", "fin"}

-----------------------------------------------------------------------------

\* the change element carries a down indicator and no up indicator
DownIndicated(markup) ==
  /\ markup.present
  /\ (markup.inner /\ Contains(markup.arrow, <<ArrowDown>>)) \/ markup.cls = "neg"
  /\ ~(markup.inner /\ Contains(markup.arrow, <<ArrowUp>>))
  /\ markup.cls # "pos"

\* the change element carries an up indicator and no down indicator
UpIndicated(markup) ==
  /\ markup.present
  /\ (markup.inner /\ Contains(markup.arrow, <<ArrowUp>>)) \/ markup.cls = "pos"
  /\ ~(markup.inner /\ Contains(markup.arrow, <<ArrowDown>>))
  /\ markup.cls # "neg"

\* C4: in _extract_change_data a down indicator (down glyph or class neg)
\* gives point <= 0 and percent <= 0, an up indicator (up glyph or class
\* pos) gives point >= 0 and percent >= 0, whatever signs the text holds.
C4_SignCovariance ==
  op = "_extract_change_data" =>
    /\ DownIndicated(arg) =>
         /\ ret.point.k # "none" => FLeZero(ret.point)
         /\ ret.percent.k # "none" => FLeZero(ret.percent)
    /\ UpIndicated(arg) =>
         /\ ret.point.k # "none" => FGeZero(ret.point)
         /\ ret.percent.k # "none" => FGeZero(ret.percent)

\* C5: _parse_change_string returns both components or neither, and every
\* component it returns is an unsigned magnitude (>= 0).
C5_ChangeStringUnsigned ==
  op = "_parse_change_string" =>
    /\ (ret.point.k = "none") <=> (ret.percent.k = "none")
    /\ ret.point.k # "none" => FGeZero(ret.point)
    /\ ret.percent.k # "none" => FGeZero(ret.percent)

\* C5 on the inputs named by the specification
C5_Examples ==
  /\ _parse_change_string(<<"1", "4", ".", "7", "6", " ", "(", "0", ".", "0",
                            "6", "%", ")">>)
       = [point |-> Dec(14, 76, 2), percent |-> Dec(0, 6, 2)]
  /\ _parse_change_string(<<"n", "o", "t", " ", "a", " ", "m", "a", "t", "c",
                            "h">>) = NoChange
  /\ _parse_change_string(<<>>) = NoChange

-----------------------------------------------------------------------------

\* no two entries of hs have the same headline text
NoDuplicateText(hs) ==
  \A i, j \in 1..Len(hs) : hs[i].headline = hs[j].headline => i = j

\* C6: the list returned by get_news_headlines, in scraper_index.py and in
\* scraper.py, has no two entries with the same text and at most limit
\* entries.
C6_HeadlinesUniqueAndBounded ==
  (op \in {"get_news_headlines", "legacy_get_news_headlines"} /\ ret.exc = "")
    => /\ NoDuplicateText(ret.val)
       /\ Len(ret.val) <= arg.limit

\* C6 restricted to scraper_index.py, where the final deduplication runs
C6_IndexScraperUnique ==
  (op = "get_news_headlines" /\ ret.exc = "")
    => /\ NoDuplicateText(ret.val)
       /\ Len(ret.val) <= arg.limit

-----------------------------------------------------------------------------

\* the array of the quote example
RoundTripResponse ==
  [kind |-> "json",
   data |-> JList(<<JObj(JStr(<<"5", "2", ".", "7", "5">>),
                         JStr(NegFragment),
                         JStr(<<"1", ".", "2", "3", "B">>),
                         JStr(<<"1", "5", ":", "3", "0">>))>>)]

\* C7: fed the array with the single element {a:"52.75",
\* b:"<span class='neg'>-0.45(0.85%)</span>", d:"1.23B", e:"15:30"},
\* get_stock_quote returns current_price 52.75, price_change -0.45,
\* price_change_percent -0.85, turnover 1.23e9 and turnover_unit "B".
C7_QuoteRoundTrip ==
  (/\ op = "get_stock_quote"
   /\ _format_symbol(arg.symbol).exc = ""
   /\ arg.response = RoundTripResponse)
    => /\ ret.exc = ""
       /\ ret.val.current_price = Dec(52, 75, 2)
       /\ ret.val.price_change = FNeg(Dec(0, 45, 2))
       /\ ret.val.price_change_percent = FNeg(Dec(0, 85, 2))
       /\ ret.val.turnover = FScale(Dec(1, 23, 2), 9)
       /\ ret.val.turnover_unit = "B"

\* what the example returns: the turnover is the mantissa as written
C7_TurnoverUnscaled ==
  (/\ op = "get_stock_quote"
   /\ _format_symbol(arg.symbol).exc = ""
   /\ arg.response = RoundTripResponse)
    => /\ ret.exc = ""
       /\ ret.val.current_price = Dec(52, 75, 2)
       /\ ret.val.price_change = FNeg(Dec(0, 45, 2))
       /\ ret.val.price_change_percent = FNeg(Dec(0, 85, 2))
       /\ ret.val.turnover = Dec(1, 23, 2)
       /\ ret.val.turnover_unit = "B"

\* the sign character that starts the text of the fragment, or ""
LeadingSign(html) == SignPrefix(Strip(GetText(html)))

NonPositive(v) == v.k = "none" \/ FLeZero(v)

NonNegative(v) == v.k = "none" \/ FGeZero(v)

BothNonPositive(r) == NonPositive(r.change) /\ NonPositive(r.percent)

BothNonNegative(r) == NonNegative(r.change) /\ NonNegative(r.percent)

\* the fragment carries class='pos' only, or class='neg' only
OnlyPos(html) == Contains(html, ClassPos) /\ ~Contains(html, ClassNeg)

OnlyNeg(html) == Contains(html, ClassNeg) /\ ~Contains(html, ClassPos)

NoClass(html) == ~Contains(html, ClassPos) /\ ~Contains(html, ClassNeg)

ResolvesDown(html) ==
  LeadingSign(html) = "-" \/ (Contains(html, ClassNeg) /\ ~Contains(html, ClassPos))

\* failing that, a leading "+" or the class pos calls for values that are
\* not negative
ResolvesUp(html) ==
  ~ResolvesDown(html) /\ (LeadingSign(html) = "+" \/ Contains(html, ClassPos))

QuoteKeys ==
  {"symbol", "company_name", "current_price", "price_change",
   "price_change_percent", "turnover", "turnover_unit",
   "last_updated_time", "timestamp", "source", "url"}

IsNonEmptyArray(data) == data.kind = "list" /\ data.items # <<>>

\* the response cut down to its element zero
ElementZeroOnly(response) ==
  [kind |-> "json", data |-> JList(<<response.data.items[1]>>)]

\* C9: get_stock_quote fails with the no-data error whenever the decoded
\* response is not a non-empty array; whenever it is one, it returns a quote
\* with all eleven keys that depends on element zero only.
C9_NoDataOrFullQuote ==
  (/\ op = "get_stock_quote"
   /\ _format_symbol(arg.symbol).exc = ""
   /\ arg.response.kind = "json")
    => IF IsNonEmptyArray(arg.response.data)
       THEN /\ ret.exc = ""
            /\ DOMAIN ret.val = QuoteKeys
            /\ ret = get_stock_quote(arg.symbol, arg.company_name,
                                     ElementZeroOnly(arg.response),
                                     ret.val.timestamp)
       ELSE /\ ret.exc = "RuntimeError"
            /\ ret.cause = NoDataReturned

\* the half of C9 on responses that are no non-empty array
C9_NoDataHalf ==
  (/\ op = "get_stock_quote"
   /\ _format_symbol(arg.symbol).exc = ""
   /\ arg.response.kind = "json"
   /\ ~IsNonEmptyArray(arg.response.data))
    => /\ ret.exc = "RuntimeError"
       /\ ret.cause = NoDataReturned

\* the half of C9 on arrays whose element zero is an object with a price
\* that is a string, null or missing
C9_FullQuoteOfTextPrice ==
  (/\ op = "get_stock_quote"
   /\ _format_symbol(arg.symbol).exc = ""
   /\ arg.response.kind = "json"
   /\ IsNonEmptyArray(arg.response.data)
   /\ arg.response.data.items[1].kind = "object"
   /\ arg.response.data.items[1].a.kind # "number")
    => /\ ret.exc = ""
       /\ DOMAIN ret.val = QuoteKeys
       /\ ret = get_stock_quote(arg.symbol, arg.company_name,
                                ElementZeroOnly(arg.response),
                                ret.val.timestamp)

\* NOT_FOUND occurs in s in some mix of upper and lower case
MentionsNotFound(s) == \E i \in 1..Len(s) : MatchAtIgnoreCase(s, NOT_FOUND, i)

\* C10: a response text that contains NOT_FOUND, in any mix of case, yields
\* None, whatever symbol or company text it also contains.
C10_NotFoundIsAbsent ==
  (op = "_extract_symbol_and_company_from_response" /\ MentionsNotFound(arg))
    => ret = NotFound

\* a well-formed answer followed by Not_Found in mixed case
C10_Witness ==
  /\ op = "_extract_symbol_and_company_from_response"
  /\ MentionsNotFound(arg)
  /\ ~Contains(arg, NOT_FOUND)
  /\ StructuredStarts(arg) # {}
  /\ ret = NotFound

-----------------------------------------------------------------------------

\* the text group 2 captures in the match at i, before it is trimmed
CapturedCompany(s, i) ==
  SubSeq(s, GroupStart(s, i), GroupStart(s, i) + DotRun(s, GroupStart(s, i)) - 1)

\* the response has the structured form somewhere and no NOT_FOUND
HasStructuredForm(s) == ~MentionsNotFound(s) /\ StructuredStarts(s) # {}

\* C11 as stated: a response of the structured form whose captured company
\* text is longer than 2 characters yields the digits padded to 5 and the
\* captured text trimmed.
C11_CapturedLength ==
  (/\ op = "_extract_symbol_and_company_from_response"
   /\ HasStructuredForm(arg)
   /\ Len(CapturedCompany(arg, Least(StructuredStarts(arg)))) > 2)
    => ret = Found(ZFill(SymbolGroup(arg, Least(StructuredStarts(arg))), 5),
                   Strip(CapturedCompany(arg, Least(StructuredStarts(arg)))))

\* C11, amended: a response of the structured form whose captured company
\* text, once trimmed, is longer than 2 characters yields the digits padded
\* to 5 and that trimmed text, and not the placeholder of the fallback.
C11_StructuredPath ==
  (/\ op = "_extract_symbol_and_company_from_response"
   /\ HasStructuredForm(arg)
   /\ Len(Strip(CapturedCompany(arg, Least(StructuredStarts(arg))))) > 2)
    => /\ ret = Found(ZFill(SymbolGroup(arg, Least(StructuredStarts(arg))), 5),
                      Strip(CapturedCompany(arg, Least(StructuredStarts(arg)))))
       /\ Len(ret.symbol) = 5
       /\ ret.company_name # GenericCompany \o ret.symbol

\* a structured answer has been read
C11_Witness ==
  /\ op = "_extract_symbol_and_company_from_response"
  /\ arg = <<"S", "y", "m", "b", "o", "l", ":", " ", "5", ",", " ", "C", "o",
    "m", "p", "a", "n", "y", ":", " ", "H", "S", "B", "C", " ", "L",
    "t", "d">>
  /\ ret = Found(<<"0", "0", "0", "0", "5">>, <<"H", "S", "B", "C", " ", "L", "t", "d">>)

\* a run of k digits at i that is a word of its own
IsDigitWord(s, i, k) ==
  /\ i + k - 1 <= Len(s)
  /\ \A j \in i..(i + k - 1) : s[j] \in DigitSet
  /\ i = 1 \/ s[i - 1] \notin WordChars
  /\ i + k > Len(s) \/ s[i + k] \notin WordChars

\* where the first digit word of one of the lengths Ks starts
FirstWordAt(s, Ks) ==
  Least({i \in 1..Len(s) : \E k \in Ks : IsDigitWord(s, i, k)})

\* the digit word that starts at i
WordAt(s, i) == SubSeq(s, i, i + RunFrom(s, i, DigitSet) - 1)

HasWord(s, Ks) == \E i \in 1..Len(s) : \E k \in Ks : IsDigitWord(s, i, k)

Placeholder(symbol) == Found(symbol, GenericCompany \o symbol)

\* C12: when the structured pattern fails, the first word of five digits
\* decides the symbol, else the first word of one to four digits padded to
\* five; the company is "Company <symbol>"; None comes back only when there
\* is no such word (the .HK pattern finds nothing the first two missed).
C12_FallbackOrder ==
  (/\ op = "_extract_symbol_and_company_from_response"
   /\ arg # <<>>
   /\ ~MentionsNotFound(arg)
   /\ StructuredStarts(arg) = {})
    => ret = IF HasWord(arg, {5})
             THEN Placeholder(WordAt(arg, FirstWordAt(arg, {5})))
             ELSE IF HasWord(arg, 1..4)
             THEN Placeholder(ZFill(WordAt(arg, FirstWordAt(arg, 1..4)), 5))
             ELSE NotFound

\* the example "random text 700"
C12_Witness ==
  /\ op = "_extract_symbol_and_company_from_response"
  /\ arg = <<"r", "a", "n", "d", "o", "m", " ", "t", "e", "x", "t", " ", "7",
    "0", "0">>
  /\ ret = Found(<<"0", "0", "7", "0", "0">>,
                 <<"C", "o", "m", "p", "a", "n", "y", " ", "0", "0",
                   "7", "0", "0">>)

\* C13: every result other than None has a symbol of exactly 5 digits and a
\* company name of at least 3 characters.
C13_ResultShape ==
  (op = "_extract_symbol_and_company_from_response" /\ ret.found)
    => /\ Len(ret.symbol) = 5
       /\ \A i \in 1..5 : ret.symbol[i] \in DigitSet
       /\ Len(ret.company_name) >= 3

\* a structured answer with a company of two characters came back with the
\* placeholder name
C13_Witness ==
  /\ op = "_extract_symbol_and_company_from_response"
  /\ StructuredStarts(arg) # {}
  /\ Len(Strip(CapturedCompany(arg, Least(StructuredStarts(arg))))) = 2
  /\ ret = Placeholder(<<"0", "0", "0", "0", "5">>)

-----------------------------------------------------------------------------

SnapshotKeys ==
  {"current_point", "daily_change_point", "daily_change_percent", "turnover",
   "timestamp", "source", "url"}

\* the page on which every extraction but that of field fails: its calls
\* raise and its elements are missing
OthersFail(soup, field) ==
  [point |-> IF field = "point" THEN soup.point ELSE NoElement,
   turnover |-> IF field = "turnover" THEN soup.turnover ELSE NoElement,
   change |-> IF field = "change" THEN soup.change
              ELSE [present |-> FALSE, cls |-> "none", inner |-> FALSE,
                    arrow |-> <<>>, rest |-> <<>>],
   faults |-> (soup.faults \cap {field})
                \cup ({"point", "turnover", "change"} \ {field})]

\* the extraction of field fails on the page: the selector misses or a call
\* raises
ExtractionFails(soup, field) ==
  \/ field \in soup.faults
  \/ field = "point" /\ ~soup.point.present
  \/ field = "turnover" /\ ~soup.turnover.present
  \/ field = "change" /\ ~soup.change.present

\* the values a snapshot gives for an extraction
FieldValues(snapshot, field) ==
  IF field = "point" THEN <<snapshot.current_point>>
  ELSE IF field = "turnover" THEN <<snapshot.turnover>>
  ELSE <<snapshot.daily_change_point, snapshot.daily_change_percent>>

KnownTools == {"get_hsi_data", "get_hsi_news_summary"}

\* the messages of the exceptions that a call can meet: the one that
\* _execute_tool_logic raises itself, the one that reading or clamping the
\* limit raises, or the one of a scraper
MessagesMet(call) ==
  IF call.name \notin KnownTools THEN {"Unknown tool: " \o call.name}
  ELSE IF call.name = "get_hsi_data"
       THEN {Collaborator(FetchFailed).msg}
  ELSE IF LimitOf(call.arguments).exc # ""
       THEN {LimitOf(call.arguments).msg}
  ELSE IF ClampLimit(LimitOf(call.arguments).val).exc # ""
       THEN {ClampLimit(LimitOf(call.arguments).val).msg}
  ELSE {Collaborator(FetchFailed).msg}

\* the object that a finished call hands to the transport
ResponseObject(call) == call.response[1].text

\* C15: whatever the tool name, the arguments and the failures of the
\* scrapers and of the AI client, a finished tool call has let no exception
\* escape and its response is one text content holding an object with a
\* boolean success; a failure has success false and an error that is the
\* message of the exception met, a success has data.
C15_StructuredResponse ==
  \A r \in Requests :
    calls[r].pc = "done" =>
      /\ calls[r].escaped = ""
      /\ Len(calls[r].response) = 1
      /\ calls[r].response[1].type = "text"
      /\ ResponseObject(calls[r]).success \in BOOLEAN
      /\ IF ResponseObject(calls[r]).success
         THEN DOMAIN ResponseObject(calls[r]) = {"success", "data", "message"}
         ELSE /\ DOMAIN ResponseObject(calls[r]) = {"success", "error", "message"}
              /\ ResponseObject(calls[r]).error \in MessagesMet(calls[r])

\* an unknown tool and a news request whose scrape raised have both
\* ended in an error response
C15_Witness ==
  /\ calls["r1"].pc = "done"
  /\ calls["r1"].name = "get_stock_quote"
  /\ calls["r1"].response =
       ErrorResponse("Unknown tool: get_stock_quote",
                     "Failed to execute tool get_stock_quote")
  /\ calls["r2"].pc = "done"
  /\ calls["r2"].name = "get_hsi_news_summary"
  /\ calls["r2"].scrape = "failed"
  /\ ~ResponseObject(calls["r2"]).success
  /\ ResponseObject(calls["r2"]).error = "RequestException"

\* the request found headlines and asked for the AI client
AskedForClient(call) ==
  /\ call.pc = "done"
  /\ call.name = "get_hsi_news_summary"
  /\ call.scrape = "ok"
  /\ call.headlines # <<>>

\* the construction of the client raised
ConstructionFailed(call) == AskedForClient(call) /\ call.client = NoClient

\* the summarization model raised or gave no text
GenerationGaveNothing(call) ==
  /\ AskedForClient(call)
  /\ call.client # NoClient
  /\ \/ call.answer.exc # ""
     \/ Strip(call.answer.text) = <<>>

\* the local summary of each list of headlines
FallbackSummaries ==
  [headlines \in ServerHeadlineLists |-> _generate_fallback_summary(headlines)]

\* the summary that is produced locally when the AI fails
DegradedSummary(call) ==
  IF call.client = NoClient THEN UnableSummary(Len(call.headlines))
  ELSE FallbackSummaries[call.headlines]

\* the response of a degraded news request
DegradedResponse(call) ==
  /\ ResponseObject(call).success
  /\ ResponseObject(call).data.headlines = call.headlines
  /\ ResponseObject(call).data.count = Len(call.headlines)
  /\ ResponseObject(call).data.summary = DegradedSummary(call)

\* C16: a news request that found at least one headline and whose AI
\* summarization failed (construction of the client raised, generation
\* raised, or the text was empty) ends with success true, the headlines as
\* scraped, their count and the locally produced summary.
C16_Degradation ==
  \A r \in Requests :
    ConstructionFailed(calls[r]) \/ GenerationGaveNothing(calls[r]) =>
      DegradedResponse(calls[r])

\* what the code does: the degraded response, unless the scrape of the index
\* page made for the timestamp raised, which ends the request in an error
C16_DegradedUnlessTimestampFails ==
  \A r \in Requests :
    ConstructionFailed(calls[r]) \/ GenerationGaveNothing(calls[r]) =>
      /\ calls[r].fetches = <<NEWS_URL, HSI_URL>>
      /\ \/ DegradedResponse(calls[r])
         \/ calls[r].response =
              ErrorResponse(Collaborator(FetchFailed).msg,
                            "Failed to retrieve news headlines and summary")

\* both kinds of failure have ended in a degraded response
C16_Witness ==
  /\ ConstructionFailed(calls["r1"])
  /\ DegradedResponse(calls["r1"])
  /\ GenerationGaveNothing(calls["r2"])
  /\ DegradedResponse(calls["r2"])
  /\ Len(calls["r2"].headlines) = 2

\* the scrape of the headlines gave an empty list
FoundNoHeadlines(call) ==
  /\ call.pc = "done"
  /\ call.name = "get_hsi_news_summary"
  /\ call.scrape = "ok"
  /\ call.headlines = <<>>

\* the step of request r in which its scrape gives an empty list
FindsNoHeadlines(r) ==
  /\ calls[r].pc = "headlines"
  /\ FoundNoHeadlines(calls'[r])

\* C17: a news request whose scrape gives an empty list answers success
\* true with no headlines, count 0 and the summary "No headlines available
\* at this time."; it has made no call to the AI collaborator, holds no
\* client, and the step that answers constructs no client.
C17_NoHeadlinesNoAI ==
  /\ [](\A r \in Requests :
          FoundNoHeadlines(calls[r]) =>
            /\ calls[r].response = NoHeadlinesResponse
            /\ ResponseObject(calls[r]).success
            /\ ResponseObject(calls[r]).data.headlines = <<>>
            /\ ResponseObject(calls[r]).data.count = 0
            /\ ResponseObject(calls[r]).data.summary =
                 <<"No headlines available at this time.">>
            /\ calls[r].ai = <<>>
            /\ calls[r].client = NoClient)
  /\ [][\A r \in Requests :
          FindsNoHeadlines(r) => UNCHANGED <<gemini_client, constructions>>]_vars

\* a request has found no headlines while the server holds a client that
\* another request, still in progress, had constructed
C17_Witness ==
  /\ FoundNoHeadlines(calls["r1"])
  /\ gemini_client # NoClient
  /\ calls["r2"].pc = "summarize"

\* the number of constructions of s that completed
RECURSIVE Completed(_)
Completed(s) ==
  IF s = <<>> THEN 0
  ELSE (IF s[1] = "ok" THEN 1 ELSE 0) + Completed(Tail(s))

\* the step of request r in which it asks for the client
AsksForClient(r) ==
  /\ calls[r].pc = "headlines"
  /\ calls'[r].scrape = "ok"
  /\ calls'[r].headlines # <<>>

\* C18: whatever the requests and their interleaving, the constructor of
\* GeminiClient completes at most once, the server holds a client exactly
\* when it did, and every request that was given a client was given that
\* one.  A request that asks while the client is unset calls the
\* constructor, and when the construction fails the request gets no client
\* and the client stays unset; a request that asks while the client is set
\* constructs nothing.
C18_LazyClient ==
  /\ [](/\ Completed(constructions) <= 1
        /\ (gemini_client = NoClient) = (Completed(constructions) = 0)
        /\ \A r \in Requests :
             calls[r].client # NoClient => calls[r].client = gemini_client)
  /\ [][\A r \in Requests :
          AsksForClient(r) =>
            IF gemini_client # NoClient
            THEN /\ UNCHANGED <<gemini_client, constructions>>
                 /\ calls'[r].client = gemini_client
            ELSE /\ Len(constructions') = Len(constructions) + 1
                 /\ IF constructions'[Len(constructions')] = "ok"
                    THEN /\ gemini_client' # NoClient
                         /\ calls'[r].client = gemini_client'
                    ELSE /\ gemini_client' = NoClient
                         /\ calls'[r].client = NoClient
                         /\ calls'[r].summary =
                              UnableSummary(Len(calls'[r].headlines))]_vars

\* a construction failed, a later request constructed the client, and two
\* requests now hold that one client
C18_Witness ==
  /\ constructions = <<"failed", "ok">>
  /\ gemini_client # NoClient
  /\ \A r \in Requests :
       /\ calls[r].pc = "summarize"
       /\ calls[r].client = gemini_client

\* a lookup is in progress or has just ended
InLookup == op = "lookup_stock_symbol"

\* the grounded model was asked and gave no result
GroundedGaveNothing ==
  /\ InLookup
  /\ genLog # <<>>
  /\ ~_try_grounded_lookup(genLog[1].answer).found

\* the grounded model was asked and failed: it could not be obtained or
\* generate_content raised
GroundedFailed ==
  /\ InLookup
  /\ genLog # <<>>
  /\ genLog[1].answer.exc # ""

\* the non-grounded model has been asked after the grounded one, with the
\* prompt of the grounded call
FallbackAsked ==
  /\ Len(genLog) = 2
  /\ genLog[2].model = "default"
  /\ genLog[2].prompt = genLog[1].prompt

\* C19: in lookup_stock_symbol the first model asked is the grounded one,
\* with the prompt made from the stripped company name; the non-grounded
\* model is asked only second, only after a grounded call that gave no
\* result, and with the same prompt; a lookup does not end after a failed
\* grounded call without having asked the non-grounded model, and once the
\* grounded call has failed the non-grounded model is eventually asked; a
\* grounded result is returned as it is; an empty or whitespace-only name
\* returns absent with no model asked.
C19_GroundedFirst ==
  /\ [](InLookup =>
          /\ Len(genLog) <= 2
          /\ genLog # <<>> =>
               /\ genLog[1].model = "grounding"
               /\ genLog[1].prompt =
                    _create_lookup_prompt(Strip(arg.company_name))
          /\ Len(genLog) = 2 => FallbackAsked /\ GroundedGaveNothing
          /\ pc = "done" /\ GroundedGaveNothing =>
               FallbackAsked
                 /\ ret = Returned(_try_fallback_lookup(genLog[2].answer))
          /\ pc = "done" /\ genLog # <<>> /\ ~GroundedGaveNothing =>
               Len(genLog) = 1
                 /\ ret = Returned(_try_grounded_lookup(genLog[1].answer))
          /\ pc = "done" /\ Strip(arg.company_name) = <<>> =>
               genLog = <<>> /\ ret = Returned(NotFound)
          /\ pc = "done" /\ Strip(arg.company_name) # <<>> => genLog # <<>>)
  /\ (GroundedFailed ~> FallbackAsked)

\* the grounded call raised and the non-grounded model, asked with the same
\* prompt, found the symbol
C19_Witness ==
  /\ InLookup
  /\ pc = "done"
  /\ GroundedFailed
  /\ genLog[1].answer = GenerationFailed
  /\ FallbackAsked
  /\ ret.val.found

\* the grounded call found the symbol and no other model was asked
C19_WitnessGrounded ==
  /\ InLookup
  /\ pc = "done"
  /\ Len(genLog) = 1
  /\ ret.val.found

\* the fetch of the finished operation failed
FetchHasFailed ==
  \/ op \in {"get_hsi_data", "get_news_headlines"} /\ ~arg.fetched
  \/ op = "get_stock_quote" /\ fetchLog # <<>> /\ arg.response.kind = "http_error"

\* the i-th AI call of the operation failed
AskFailed(i) == genLog[i].answer.exc # ""

\* the operations that ask a model
AIOperations == {"lookup_stock_symbol", "summarize_headlines"}

\* the statement that a failed collaborator call ends the operation in an
\* error with no call after it
C20_PropagatedNotRetried ==
  pc = "done" =>
    /\ FetchHasFailed => ret.exc # "" /\ Len(fetchLog) = 1 /\ genLog = <<>>
    /\ op \in AIOperations =>
         \A i \in 1..Len(genLog) :
           AskFailed(i) => ret.exc # "" /\ i = Len(genLog)

\* C20: an operation makes at most one fetch, and a failed fetch reaches
\* the caller of get_hsi_data, get_news_headlines and get_stock_quote as an
\* error with no further fetch and no AI call.  A failed AI call is not
\* repeated and raises nothing: summarize_headlines asks its model once and
\* returns the locally produced summary, lookup_stock_symbol asks the
\* non-grounded model once after a failed grounded call and returns absent
\* when that call fails too.
C20_FetchPropagatedAIAbsorbed ==
  /\ Len(fetchLog) <= 1
  /\ fetchLog = <<>> \/ genLog = <<>>
  /\ pc = "done" =>
       /\ FetchHasFailed => ret.exc # "" /\ Len(fetchLog) = 1 /\ genLog = <<>>
       /\ op = "summarize_headlines" =>
            /\ Len(genLog) <= 1
            /\ ret.exc = ""
            /\ genLog # <<>> /\ AskFailed(1) =>
                 ret.val = _generate_fallback_summary(arg.headlines)
       /\ op = "lookup_stock_symbol" =>
            /\ Len(genLog) <= 2
            /\ ret.exc = ""
            /\ \A i, j \in 1..Len(genLog) :
                 i # j => genLog[i].model # genLog[j].model
            /\ genLog # <<>> /\ AskFailed(1) => Len(genLog) = 2
            /\ Len(genLog) = 2 /\ AskFailed(2) => ret.val = NotFound

\* both models of a lookup raised and the lookup returned absent
C20_Witness ==
  /\ op = "lookup_stock_symbol"
  /\ pc = "done"
  /\ Len(genLog) = 2
  /\ genLog[1].answer = GenerationFailed
  /\ genLog[2].answer = GenerationFailed
  /\ ret = Returned(NotFound)

\* a fetch failed and its operation raised
C20_WitnessFetch ==
  /\ op = "get_stock_quote"
  /\ pc = "done"
  /\ FetchHasFailed
  /\ ret.exc = "RuntimeError"
  /\ Len(fetchLog) = 1

\* the summary that a request makes of its own headlines with the client it
\* was given and the answer its model gave
OwnSummary(call) ==
  IF call.client = NoClient THEN UnableSummary(Len(call.headlines))
  ELSE SummaryOutcomes[call.headlines][call.answer]

\* the response of a news request run on its own arguments and on the
\* responses that its own collaborator calls received
OwnNewsResponse(call) ==
  IF StartNews(LimitOf(call.arguments)).next = "done"
  THEN StartNews(LimitOf(call.arguments)).out.val
  ELSE IF call.scrape = "failed"
       THEN HandleNews(Collaborator(FetchFailed)).val
  ELSE IF call.headlines = <<>> THEN NoHeadlinesResponse
  ELSE HandleNews(SummaryResponse(call.headlines, OwnSummary(call),
                                  Collaborator(call.hsi))).val

OwnResponse(call) ==
  IF call.name = "get_hsi_data"
  THEN HandleGetHsiData(Collaborator(call.hsi)).val
  ELSE IF call.name = "get_hsi_news_summary" THEN OwnNewsResponse(call)
  ELSE _execute_tool_logic(call.name, call.arguments).out.val

\* the request holds a client that it did not construct, or used a model
\* that it did not create
ReadsShared(call) ==
  \/ call.client # NoClient /\ ~InSeq("GeminiClient", call.ai)
  \/ call.model = "cached"

Scraped(call) ==
  /\ call.pc = "done"
  /\ \/ call.name = "get_hsi_data"
     \/ call.name = "get_hsi_news_summary" /\ call.scrape # ""

\* C22: a finished index request has fetched the index page once and
\* nothing else, a finished news request the news page once and no other
\* page.
C22_OneFetch ==
  \A r \in Requests :
    Scraped(calls[r]) =>
      calls[r].fetches =
        IF calls[r].name = "get_hsi_data" THEN <<HSI_URL>> ELSE <<NEWS_URL>>

\* what the code does: a news request that found headlines fetches the
\* index page after the news page
C22_FetchesOfRequest ==
  \A r \in Requests :
    Scraped(calls[r]) =>
      calls[r].fetches =
        IF calls[r].name = "get_hsi_data" THEN <<HSI_URL>>
        ELSE IF calls[r].headlines = <<>> THEN <<NEWS_URL>>
        ELSE <<NEWS_URL, HSI_URL>>

\* a news request has ended with a summary after two fetches
C22_Witness ==
  \E r \in Requests :
    /\ Scraped(calls[r])
    /\ calls[r].name = "get_hsi_news_summary"
    /\ ResponseObject(calls[r]).success
    /\ calls[r].fetches = <<NEWS_URL, HSI_URL>>

\* a call of get_news_headlines of scraper_index.py has returned a list
NewsReturned ==
  /\ pc = "done"
  /\ op = "get_news_headlines"
  /\ arg.fetched

\* whether strategy k takes the anchor a when it meets it: a news link, a
\* link in a container, or any link, with the text filter of the strategy
Takes(k, a) ==
  /\ _process_headline_link(a).some
  /\ CASE k = 1 ->
            /\ HrefIsNews(a.href)
            /\ Len(_process_headline_link(a).headline) > MIN_HEADLINE_LENGTH
       [] k = 2 ->
            /\ a.box
            /\ Len(_process_headline_link(a).headline) > MIN_HEADLINE_LENGTH
       [] k = 3 -> _is_valid_headline(_process_headline_link(a).headline)

\* the places in the document where strategy k can take the entry h
PlacesOf(k, doc, h) ==
  { i \in 1..Len(doc) :
      Takes(k, doc[i]) /\ Entry(_process_headline_link(doc[i])) = h }

\* what each strategy contributes when get_news_headlines runs: a later
\* one is asked for what is missing from the limit
DirectPart(doc, limit) == _extract_article_links(doc, limit)

ContainerPart(doc, limit) ==
  IF Len(DirectPart(doc, limit)) < limit
  THEN _extract_container_headlines(doc, limit - Len(DirectPart(doc, limit)))
  ELSE <<>>

FilteredPart(doc, limit) ==
  IF Len(DirectPart(doc, limit)) + Len(ContainerPart(doc, limit)) < limit
  THEN _extract_filtered_headlines(
         doc, limit - Len(DirectPart(doc, limit))
                    - Len(ContainerPart(doc, limit)))
  ELSE <<>>

\* the first strategy that contributed the entry h, 0 when none did, given
\* the three contributions
StrategyOf(h, direct, container, filtered) ==
  IF InSeq(h, direct) THEN 1
  ELSE IF InSeq(h, container) THEN 2
  ELSE IF InSeq(h, filtered) THEN 3
  ELSE 0

\* the strategies of the returned headlines, in the order of the list
RanksOf(val, direct, container, filtered) ==
  [i \in 1..Len(val) |-> StrategyOf(val[i], direct, container, filtered)]

\* the first place of the document where its strategy can take each
\* returned headline, 0 when there is none
FirstPlaces(val, ranks, doc) ==
  [i \in 1..Len(val) |->
     IF ranks[i] \in 1..3 /\ PlacesOf(ranks[i], doc, val[i]) # {}
     THEN Least(PlacesOf(ranks[i], doc, val[i]))
     ELSE 0]

\* the returned list is ordered by strategy and, within a strategy, by
\* place in the document
OrderedByStrategy(val, ranks, places) ==
  /\ \A i \in 1..Len(val) : ranks[i] \in 1..3 /\ places[i] > 0
  /\ \A i, j \in 1..Len(val) :
       i < j =>
         /\ ranks[i] <= ranks[j]
         /\ ranks[i] = ranks[j] => places[i] < places[j]

\* a strategy that found the limit reached has contributed nothing: every
\* returned headline can be taken by a strategy that ran
OnlyWhileShort(val, doc, limit, direct, container) ==
  /\ Len(direct) >= limit =>
       \A i \in 1..Len(val) : PlacesOf(1, doc, val[i]) # {}
  /\ Len(direct) + Len(container) >= limit =>
       \A i \in 1..Len(val) :
         PlacesOf(1, doc, val[i]) \cup PlacesOf(2, doc, val[i]) # {}

StrategyOrder(val, doc, limit, direct, container, ranks) ==
  /\ OrderedByStrategy(val, ranks, FirstPlaces(val, ranks, doc))
  /\ OnlyWhileShort(val, doc, limit, direct, container)

\* C23: in the list that get_news_headlines returns every headline comes
\* from one of the three strategies, the headlines of the direct-link
\* strategy precede those of the container strategy, which precede those
\* of the keyword strategy, and the headlines of one strategy stand in the
\* order of their first places in the document; when the direct strategy
\* alone reaches the limit every returned headline is a direct link, and
\* when the first two reach it none comes from the keyword strategy alone.
C23_StrategyOrder ==
  NewsReturned =>
    StrategyOrder(ret.val, arg.doc, arg.limit,
                  DirectPart(arg.doc, arg.limit),
                  ContainerPart(arg.doc, arg.limit),
                  RanksOf(ret.val, DirectPart(arg.doc, arg.limit),
                          ContainerPart(arg.doc, arg.limit),
                          FilteredPart(arg.doc, arg.limit)))

\* the ranks and the places of the list that was returned
ReturnedRanks ==
  RanksOf(ret.val, DirectPart(arg.doc, arg.limit),
          ContainerPart(arg.doc, arg.limit), FilteredPart(arg.doc, arg.limit))

ReturnedPlaces == FirstPlaces(ret.val, ReturnedRanks, arg.doc)

\* a direct link follows in the document the link that a later strategy
\* took, and precedes it in the list
C23_Witness ==
  /\ NewsReturned
  /\ Len(ret.val) = 2
  /\ ReturnedRanks[1] = 1
  /\ ReturnedRanks[2] > 1
  /\ ReturnedPlaces[2] < ReturnedPlaces[1]

-----------------------------------------------------------------------------

\* the texts that the strategies together offer: those of the news links
\* the direct strategy looks at, of the links in containers and of all
\* links, each under the text filter of its strategy
OfferedTexts(doc, limit) ==
  { _process_headline_link(a).headline :
      a \in { Prefix(ArticleLinks(doc), limit * 2)[i] :
                i \in 1..Len(Prefix(ArticleLinks(doc), limit * 2)) }
             \cap { a \in Anchors : Takes(1, a) } }
  \cup
  { _process_headline_link(doc[i]).headline :
      i \in { j \in 1..Len(doc) : Takes(2, doc[j]) \/ Takes(3, doc[j]) } }

\* no headline of the container contribution has the text of a headline
\* the direct strategy collected
SkipsCollected(direct, container) ==
  \A i \in 1..Len(container) :
    ~_is_duplicate_headline(container[i].headline, direct)

\* C24: when get_news_headlines returns, the container strategy has
\* contributed no headline whose text the direct-link strategy already
\* collected, so such an anchor used none of the remaining limit, and the
\* returned list is shorter than limit only when the strategies together
\* offer fewer than limit distinct acceptable texts.
C24_IncrementalDedup ==
  NewsReturned =>
    /\ SkipsCollected(DirectPart(arg.doc, arg.limit),
                      ContainerPart(arg.doc, arg.limit))
    /\ Len(ret.val) < arg.limit =>
         Cardinality(OfferedTexts(arg.doc, arg.limit)) < arg.limit

-----------------------------------------------------------------------------

\* the lower-cased text holds one of the ten market keywords
HasMarketKeyword(text) ==
  /\ Len(MARKET_KEYWORDS) = 10
  /\ \E k \in 1..Len(MARKET_KEYWORDS) : Contains(Lower(text), MARKET_KEYWORDS[k])

\* every text of the contribution is longer than the minimum
LongerThanMinimum(part) ==
  \A i \in 1..Len(part) : Len(part[i].headline) > MIN_HEADLINE_LENGTH

\* every text of the contribution has a length within the two limits and
\* holds a market keyword
WithinLimitsWithKeyword(part) ==
  \A i \in 1..Len(part) :
    /\ MIN_HEADLINE_LENGTH <= Len(part[i].headline)
    /\ Len(part[i].headline) <= MAX_HEADLINE_LENGTH
    /\ HasMarketKeyword(part[i].headline)

\* the anchors of the document that give the entry h: the cleaned text of
\* the anchor is the text of h, and the url of h is empty exactly when the
\* anchor has no href
AnchorsOf(doc, h) ==
  { i \in 1..Len(doc) :
      /\ _clean_text(doc[i].text) = h.headline
      /\ (h.url = <<>>) <=> (doc[i].href = <<>>) }

\* the entry h is a cleaned, non-empty text of at least the minimum
\* length, given by an anchor of the document and by one of the
\* contributions
AcceptedHeadline(h, doc, direct, container, filtered) ==
  /\ h.headline # <<>>
  /\ _clean_text(h.headline) = h.headline
  /\ Len(h.headline) >= MIN_HEADLINE_LENGTH
  /\ AnchorsOf(doc, h) # {}
  /\ InSeq(h, direct) \/ InSeq(h, container) \/ InSeq(h, filtered)

\* C25: every headline that get_news_headlines returns has a non-empty
\* cleaned text of at least 20 characters and a url that is empty exactly
\* when its anchor has no href; the direct-link and the container strategy
\* contribute only texts longer than 20 characters, and the keyword
\* strategy only texts of 20 to 200 characters whose lower-cased form holds
\* one of the ten market keywords.
C25_AcceptanceFilter ==
  NewsReturned =>
    /\ \A i \in 1..Len(ret.val) :
         AcceptedHeadline(ret.val[i], arg.doc,
                          DirectPart(arg.doc, arg.limit),
                          ContainerPart(arg.doc, arg.limit),
                          FilteredPart(arg.doc, arg.limit))
    /\ LongerThanMinimum(DirectPart(arg.doc, arg.limit))
    /\ LongerThanMinimum(ContainerPart(arg.doc, arg.limit))
    /\ WithinLimitsWithKeyword(FilteredPart(arg.doc, arg.limit))

\* the keyword strategy passed over a text of 201 characters and took one
\* of exactly 20 that the other two had refused, and a link without href
\* was returned with an empty url
C25_Witness ==
  /\ NewsReturned
  /\ \E i \in 1..Len(arg.doc) : arg.doc[i].text = TextLong
  /\ \E i \in 1..Len(arg.doc) :
       arg.doc[i].text = TextTwenty /\ HrefIsNews(arg.doc[i].href)
                                   /\ arg.doc[i].box
  /\ \E i \in 1..Len(ret.val) :
       Len(ret.val[i].headline) = MIN_HEADLINE_LENGTH
  /\ \E i \in 1..Len(ret.val) : ret.val[i].url = <<>>
  /\ \A i \in 1..Len(ret.val) : ret.val[i].headline # TextLong

-----------------------------------------------------------------------------

\* get_hsi_data has returned a snapshot of a page whose turnover element
\* is there and whose turnover extraction did not raise
TurnoverExtracted ==
  /\ pc = "done"
  /\ op = "get_hsi_data"
  /\ arg.fetched
  /\ ret.exc = ""
  /\ arg.soup.turnover.present
  /\ "turnover" \notin arg.soup.faults

\* the text is a mantissa of digits, commas and points, optional
\* whitespace and one unit letter K, M or B of either case
MantissaThenUnit(t) ==
  /\ RunFrom(t, 1, NumberChars) >= 1
  /\ RunFrom(t, 1, NumberChars)
       + RunFrom(t, RunFrom(t, 1, NumberChars) + 1, SpaceChars) + 1 = Len(t)
  /\ UpperChar(t[Len(t)]) \in {"K", "M", "B"}

\* the mantissa of such a text, parsed
MantissaOf(t) == _parse_number(SubSeq(t, 1, RunFrom(t, 1, NumberChars))).val

\* 1e3, 1e6 or 1e9 as a power of ten
PowerOfUnit(u) == CASE u = "K" -> 3 [] u = "M" -> 6 [] u = "B" -> 9

NoUnitLetter(t) ==
  \A i \in 1..Len(t) : UpperChar(t[i]) \notin {"K", "M", "B"}

\* the turnover that the scaling rule gives for the cleaned text t
ScalingRule(t, turnover) ==
  /\ (MantissaThenUnit(t) /\ MantissaOf(t) # FNone) =>
       turnover = FScale(MantissaOf(t), PowerOfUnit(UpperChar(t[Len(t)])))
  /\ NoUnitLetter(t) => turnover = _parse_number(t).val
  /\ (_parse_number(t).val = FNone
        /\ ~(MantissaThenUnit(t) /\ MantissaOf(t) # FNone)) =>
       turnover = FNone

\* C26: the turnover of the snapshot is the mantissa times 1e3, 1e6 or 1e9
\* when the text is a mantissa followed by K, M or B, for every mantissa
\* that parses, zero included; it is the parsed number when the text has
\* no unit letter; and it is absent when the text does not parse.
C26_TurnoverScaling ==
  TurnoverExtracted =>
    ScalingRule(_clean_text(arg.soup.turnover.text), ret.val.turnover)

-----------------------------------------------------------------------------

\* strictly below and strictly above zero
FNegative(v) == v.k = "fin" /\ v.neg /\ v.m # 0

FPositive(v) == v.k = "fin" /\ ~v.neg /\ v.m # 0

\* both absent, or both present and not of opposite signs
SameSign(change, percent) ==
  /\ (change = FNone) <=> (percent = FNone)
  /\ ~(FNegative(change) /\ FPositive(percent))
  /\ ~(FPositive(change) /\ FNegative(percent))

\* C27: the change and the percent that _parse_change_html returns, and
\* the price_change and price_change_percent of a quote, are both absent
\* or both present with the same sign, whatever class, leading sign and
\* sign inside the parentheses the fragment has.
C27_ChangeSameSign ==
  /\ (pc = "done" /\ op = "_parse_change_html") =>
       SameSign(ret.change, ret.percent)
  /\ (pc = "done" /\ op = "get_stock_quote" /\ ret.exc = "") =>
       SameSign(ret.val.price_change, ret.val.price_change_percent)

-----------------------------------------------------------------------------

\* a field of element zero that is missing, null, no string, empty or a
\* text that stands for no value
Unusable(v) ==
  \/ v.kind # "string"
  \/ v.s \in { <<>>, <<"n", "/", "a">>, <<"N", "/", "A">> }

\* get_stock_quote has ended on a response whose payload is a non-empty
\* array, the symbol having been accepted
QuoteOfArray ==
  /\ pc = "done"
  /\ op = "get_stock_quote"
  /\ _format_symbol(arg.symbol).exc = ""
  /\ arg.response.kind = "json"
  /\ arg.response.data.kind = "list"
  /\ arg.response.data.items # <<>>

\* the causes for which the operation may abort: an invalid symbol, a
\* failed fetch, or a payload that is empty or no array
MayAbort ==
  \/ _format_symbol(arg.symbol).exc # ""
  \/ arg.response.kind \in {"http_error", "invalid_json"}
  \/ arg.response.data.kind # "list"
  \/ arg.response.data.items = <<>>

\* the quote has the field absent exactly when the field of the element
\* is unusable, one field at a time
DegradesByField(stock_data, quote) ==
  /\ Unusable(stock_data.a) <=> quote.current_price = FNone
  /\ Unusable(stock_data.b) <=>
       (quote.price_change = FNone /\ quote.price_change_percent = FNone)
  /\ Unusable(stock_data.d) <=> quote.turnover = FNone
  /\ Unusable(stock_data.d) => quote.turnover_unit = None
  /\ Unusable(stock_data.e) <=> ~Truthy(quote.last_updated_time)

\* C28: get_stock_quote aborts only for an invalid symbol, a failed fetch
\* or an empty or non-array payload; on a non-empty array it returns a
\* quote in which a missing, null, wrongly typed or unparseable field a, b,
\* d or e of element zero makes the corresponding field absent and no
\* other.
C28_FieldByField ==
  /\ (pc = "done" /\ op = "get_stock_quote" /\ ret.exc # "") => MayAbort
  /\ (QuoteOfArray /\ ret.exc = "") =>
       DegradesByField(arg.response.data.items[1], ret.val)

-----------------------------------------------------------------------------

\* a text of exactly five decimal digits
Canonical(s) == Len(s) = 5 /\ \A i \in 1..Len(s) : IsDigit(s[i])

\* the symbol has no digit, or its first run of digits is longer than five
\* (the empty symbol has no digit)
RejectedSymbol(symbol) ==
  \/ \A i \in 1..Len(symbol) : ~IsDigit(symbol[i])
  \/ \E i \in 1..Len(symbol) :
       /\ \A j \in 1..(i - 1) : ~IsDigit(symbol[j])
       /\ RunFrom(symbol, i, DigitSet) > 5

QuoteEnded == pc = "done" /\ op = "get_stock_quote"

\* C29: when get_stock_quote ends on a rejected symbol it has raised and
\* has fetched nothing; on an accepted symbol it has issued one request,
\* to the AJAX endpoint of a canonical 5-digit symbol, and a returned
\* quote has that symbol in its symbol field and in its url.
C29_ValidationBeforeIO ==
  QuoteEnded =>
    /\ RejectedSymbol(arg.symbol) =>
         /\ ret.exc = "RuntimeError"
         /\ ret.cause = "ValueError"
         /\ fetchLog = <<>>
    /\ ~RejectedSymbol(arg.symbol) =>
         /\ Len(fetchLog) = 1
         /\ fetchLog[1].template = AJAX_URL_TEMPLATE
         /\ Canonical(fetchLog[1].symbol)
         /\ ret.exc = "" =>
              /\ ret.val.symbol = fetchLog[1].symbol
              /\ ret.val.url =
                   FormatUrl(QUOTE_URL_TEMPLATE, fetchLog[1].symbol)

\* a symbol of six digits was rejected and nothing was fetched
C29_Witness ==
  /\ QuoteEnded
  /\ arg.symbol = <<"1", "2", "3", "4", "5", "6">>
  /\ ret.exc = "RuntimeError"
  /\ fetchLog = <<>>

\* 700.HK was fetched and returned as 00700
C29_WitnessAccepted ==
  /\ QuoteEnded
  /\ arg.symbol = <<"7", "0", "0", ".", "H", "K">>
  /\ ret.exc = ""
  /\ ret.val.symbol = <<"0", "0", "7", "0", "0">>
  /\ fetchLog = <<FormatUrl(AJAX_URL_TEMPLATE, <<"0", "0", "7", "0", "0">>)>>

-----------------------------------------------------------------------------

\* \b(\d{1,5})\.HK\b matches at i with k digits
HKPatternAt(s, i, k) ==
  /\ WordBoundary(s, i)
  /\ \A d \in 0..(k - 1) : i + d <= Len(s) /\ IsDigit(s[i + d])
  /\ MatchAtIgnoreCase(s, <<".", "H", "K">>, i + k)
  /\ WordBoundary(s, i + k + 3)

HKPatternMatches(s) ==
  \E i \in 1..Len(s) : \E k \in 1..5 : HKPatternAt(s, i, k)

\* the answer was read by _extract_symbol_from_response
ReadBySymbolStrategies ==
  /\ pc = "done"
  /\ op = "_extract_symbol_and_company_from_response"
  /\ ~MentionsNotFound(arg)
  /\ StructuredStarts(arg) = {}

\* C30: a response text in which <digits>.HK matches has a word of five
\* digits or a word of one to four digits, so when
\* _extract_symbol_from_response reads it the symbol is the first word of
\* five digits if there is one, and else the first word of one to four
\* digits padded to five: the .HK strategy never decides.
C30_HKNeverDecides ==
  (pc = "done" /\ op = "_extract_symbol_and_company_from_response"
     /\ HKPatternMatches(arg)) =>
    /\ HasWord(arg, {5}) \/ HasWord(arg, 1..4)
    /\ ReadBySymbolStrategies =>
         /\ ret.found
         /\ ret.symbol =
              IF HasWord(arg, {5})
              THEN WordAt(arg, FirstWordAt(arg, {5}))
              ELSE ZFill(WordAt(arg, FirstWordAt(arg, 1..4)), 5)

\* the digits attached to .HK are not those of the returned symbol
C30_Witness ==
  /\ ReadBySymbolStrategies
  /\ HKPatternMatches(arg)
  /\ ret.found
  /\ \A i \in 1..Len(arg) : \A k \in 1..5 :
       HKPatternAt(arg, i, k) => ZFill(SubSeq(arg, i, i + k - 1), 5) # ret.symbol

====
